---- MODULE Spec2Model ----
(***************************************************************************)
(* hotalib.  First part: hotaosa::BinaryTrie<ValueType, kNumBits,          *)
(* CountType> (hotaosa/ds/binary_trie.h, kept in src/unnamed/part_005),    *)
(* specification Spec.  Second part: hotaosa::Trie<kNumChar, kBase,        *)
(* CountType> (src/hotaosa/ds/trie.h), specification TrieSpec.             *)
(*                                                                         *)
(* The trie is an arena (nodes_) of nodes addressed by index, plus a lazy  *)
(* XOR mask (xor_mask_).  Node index i of the C++ vector is element i + 1  *)
(* of the TLA+ sequence; children[d] is element d + 1 of the pair.         *)
(*                                                                         *)
(* Every member function is an operator whose first parameter `t` is the   *)
(* object, a record [nodes_, xor_mask_]; a mutator yields the object after *)
(* the call.  The actions apply the member functions to the variables.     *)
(***************************************************************************)
EXTENDS Integers, Sequences, FiniteSets

(***************************************************************************)
(* Instantiation and bounds of the exploration.                            *)
(***************************************************************************)
\* Template parameter kNumBits, the number of tracked bits: the object
\* modelled is a BinaryTrie<ValueType, 2, CountType>.
kNumBits == 2
\* Largest count argument passed to Insert / Erase.
MaxCount == 2
\* Cap on TotalCount(): Insert is not called beyond it.
MaxTotal == 3
\* Template parameter CountType, instantiated as a 16-bit signed integer.
CountBits == 16

\* std::numeric_limits<ValueType>::digits: a value type one bit wider than
\* the tracked width, so that out-of-width mask bits exist.
Digits == kNumBits + 1

kNull == -1

VARIABLES nodes_, xor_mask_

vars == <<nodes_, xor_mask_>>

\* The data members of the hotaosa::Trie (hotaosa/ds/trie.h) that the
\* specification TrieSpec exercises.  A specification whose program
\* constructs no Trie keeps them empty.
VARIABLES trie_nodes_, free_list_

trie_vars == <<trie_nodes_, free_list_>>

NoTrie == trie_nodes_ = <<>> /\ free_list_ = <<>>

\* The program of the specification LisSpec, which calls the free functions
\* of hotaosa/dp/lis.h: the arguments range, comp and mode it passes, and
\* the value the last call returned.  A specification whose program calls
\* none of them keeps the range empty and the result unset.
VARIABLES lis_range, lis_comp, lis_mode, lis_out

lis_vars == <<lis_range, lis_comp, lis_mode, lis_out>>

NoLis ==
    /\ lis_range = <<>>
    /\ lis_comp = "less"
    /\ lis_mode = "kStrict"
    /\ lis_out = [op |-> "none"]

all_vars == <<vars, trie_vars, lis_vars>>

(***************************************************************************)
(* Bit arithmetic on ValueType.                                            *)
(***************************************************************************)
Pow2(n) == 2 ^ n

\* (x >> bit) & 1
BitAt(x, bit) == (x \div Pow2(bit)) % 2

RECURSIVE BitXorW(_, _, _)
BitXorW(a, b, w) ==
    IF w = 0 THEN 0
    ELSE (((a % 2) + (b % 2)) % 2) + 2 * BitXorW(a \div 2, b \div 2, w - 1)

RECURSIVE BitAndW(_, _, _)
BitAndW(a, b, w) ==
    IF w = 0 THEN 0
    ELSE ((a % 2) * (b % 2)) + 2 * BitAndW(a \div 2, b \div 2, w - 1)

\* All values of ValueType.
ValueTypeRange == 0 .. (Pow2(Digits) - 1)

\* a ^ b and a & b on ValueType, tabulated once over all pairs of values.
XorTable == [a \in ValueTypeRange |-> [b \in ValueTypeRange |-> BitXorW(a, b, Digits)]]
AndTable == [a \in ValueTypeRange |-> [b \in ValueTypeRange |-> BitAndW(a, b, Digits)]]
BitXor(a, b) == XorTable[a][b]
BitAnd(a, b) == AndTable[a][b]

\* result |= (ValueType{1} << bit), for a bit not yet set in result
SetBit(x, bit) == IF BitAt(x, bit) = 1 THEN x ELSE x + Pow2(bit)

BitMask == IF kNumBits >= Digits THEN Pow2(Digits) - 1 ELSE Pow2(kNumBits) - 1

\* The values that fit in kNumBits bits: (value & ~mask) == 0.
InWidth == { v \in ValueTypeRange : BitAnd(v, (Pow2(Digits) - 1) - BitMask) = 0 }

ToStored(t, value) == BitAnd(BitXor(value, t.xor_mask_), BitMask)

\* Variant of ToActual that returns the stored value as it is.
ToActualRaw(t, stored) == BitAnd(stored, BitMask)

ToActual(t, stored) == BitAnd(BitXor(stored, t.xor_mask_), BitMask)

\* static_cast<std::make_unsigned_t<CountType>>(x)
ToUnsigned(x) == x % Pow2(CountBits)

\* static_cast<CountType>(x) of an int: the value modulo 2^CountBits in the
\* signed range.
ToCountType(x) ==
    ((x + Pow2(CountBits - 1)) % Pow2(CountBits)) - Pow2(CountBits - 1)

Min(a, b) == IF a <= b THEN a ELSE b

(***************************************************************************)
(* The arena.                                                              *)
(***************************************************************************)
Node == [children |-> <<kNull, kNull>>, subtree_count |-> 0, terminal_count |-> 0]

\* BinaryTrie() : nodes_(1) {}, xor_mask_{0}
BinaryTrie == [nodes_ |-> <<Node>>, xor_mask_ |-> 0]

\* ns[node_index].children[direction], on an arena value ns
ChildOf(ns, node_index, direction) == ns[node_index + 1].children[direction + 1]

SubtreeCount(t, node_index) ==
    IF node_index = kNull THEN 0 ELSE t.nodes_[node_index + 1].subtree_count

\* nodes_.emplace_back(): the arena after NewNode(); the index returned is
\* the old size.
NewNode(ns) == Append(ns, Node)

\* Variant of InsertLoop without
\* `nodes_[node_index].children[direction] = child_index`.
RECURSIVE InsertLoopNoLink(_, _, _, _, _)
InsertLoopNoLink(ns, node_index, bit, stored_value, count) ==
    IF bit < 0
    THEN [ns EXCEPT ![node_index + 1].terminal_count = @ + count]
    ELSE LET direction == BitAt(stored_value, bit)
             existing == ChildOf(ns, node_index, direction)
             child_index == IF existing = kNull THEN Len(ns) ELSE existing
             linked == IF existing = kNull THEN NewNode(ns) ELSE ns
             counted == [linked EXCEPT ![child_index + 1].subtree_count = @ + count]
         IN InsertLoopNoLink(counted, child_index, bit - 1, stored_value, count)

\* Variant of InsertLoop whose loop stops above the last level
\* (`bit > 0` for `bit >= 0`).
RECURSIVE InsertLoopOneShort(_, _, _, _, _)
InsertLoopOneShort(ns, node_index, bit, stored_value, count) ==
    IF bit < 1
    THEN [ns EXCEPT ![node_index + 1].terminal_count = @ + count]
    ELSE LET direction == BitAt(stored_value, bit)
             existing == ChildOf(ns, node_index, direction)
             child_index == IF existing = kNull THEN Len(ns) ELSE existing
             linked == IF existing = kNull
                       THEN [NewNode(ns) EXCEPT
                               ![node_index + 1].children[direction + 1] = child_index]
                       ELSE ns
             counted == [linked EXCEPT ![child_index + 1].subtree_count = @ + count]
         IN InsertLoopOneShort(counted, child_index, bit - 1, stored_value, count)

\* Variant of InsertLoop that calls NewNode at every level, linked or not.
RECURSIVE InsertLoopAlwaysNew(_, _, _, _, _)
InsertLoopAlwaysNew(ns, node_index, bit, stored_value, count) ==
    IF bit < 0
    THEN [ns EXCEPT ![node_index + 1].terminal_count = @ + count]
    ELSE LET direction == BitAt(stored_value, bit)
             child_index == Len(ns)
             linked == [NewNode(ns) EXCEPT
                          ![node_index + 1].children[direction + 1] = child_index]
             counted == [linked EXCEPT ![child_index + 1].subtree_count = @ + count]
         IN InsertLoopAlwaysNew(counted, child_index, bit - 1, stored_value, count)

\* Body of the for loop of Insert, from level `bit` down, then the final
\* terminal_count update.
RECURSIVE InsertLoop(_, _, _, _, _)
InsertLoop(ns, node_index, bit, stored_value, count) ==
    IF bit < 0
    THEN [ns EXCEPT ![node_index + 1].terminal_count = @ + count]
    ELSE LET direction == BitAt(stored_value, bit)
             existing == ChildOf(ns, node_index, direction)
             child_index == IF existing = kNull THEN Len(ns) ELSE existing
             linked == IF existing = kNull
                       THEN [NewNode(ns) EXCEPT
                               ![node_index + 1].children[direction + 1] = child_index]
                       ELSE ns
             counted == [linked EXCEPT ![child_index + 1].subtree_count = @ + count]
         IN InsertLoop(counted, child_index, bit - 1, stored_value, count)

\* Variant of Insert that walks the bits of `value` itself, without ToStored.
InsertRawValue(t, value, count) ==
    IF count = 0 THEN t
    ELSE [t EXCEPT !.nodes_ =
            InsertLoop([t.nodes_ EXCEPT ![1].subtree_count = @ + count],
                       0, kNumBits - 1, value, count)]

\* The object after Insert(value, count).
Insert(t, value, count) ==
    IF count = 0 THEN t
    ELSE [t EXCEPT !.nodes_ =
            InsertLoop([t.nodes_ EXCEPT ![1].subtree_count = @ + count],
                       0, kNumBits - 1, ToStored(t, value), count)]

\* The first loop of Erase: the recorded path, or <<>> when a link is missing.
RECURSIVE ErasePath(_, _, _, _, _)
ErasePath(ns, node_index, bit, stored_value, path) ==
    IF bit < 0 THEN path
    ELSE LET direction == BitAt(stored_value, bit)
             child_index == ChildOf(ns, node_index, direction)
         IN IF child_index = kNull THEN <<>>
            ELSE ErasePath(ns, child_index, bit - 1, stored_value,
                           Append(path, child_index))

\* Variant of EraseSubtract that stops below the root: the loop bound
\* `depth >= 0` written as `depth > 0`.
RECURSIVE EraseSubtractSkipRoot(_, _, _, _)
EraseSubtractSkipRoot(ns, path, depth, removable) ==
    IF depth <= 0 THEN ns
    ELSE EraseSubtractSkipRoot(
           [ns EXCEPT ![path[depth + 1] + 1].subtree_count = @ - removable],
           path, depth - 1, removable)

\* The second loop of Erase: subtree_count -= removable from path[depth] up
\* to path[0].
RECURSIVE EraseSubtract(_, _, _, _)
EraseSubtract(ns, path, depth, removable) ==
    IF depth < 0 THEN ns
    ELSE EraseSubtract([ns EXCEPT ![path[depth + 1] + 1].subtree_count = @ - removable],
                       path, depth - 1, removable)

\* Variant of Erase without the clamp: removable = count.
EraseUnclamped(t, value, count) ==
    IF count = 0 THEN t
    ELSE LET path == ErasePath(t.nodes_, 0, kNumBits - 1, ToStored(t, value), <<0>>)
         IN IF path = <<>> THEN t
            ELSE LET node_index == path[kNumBits + 1]
                     removable == count
                 IN IF removable = 0 THEN t
                    ELSE [t EXCEPT !.nodes_ = EraseSubtract(
                           [t.nodes_ EXCEPT ![node_index + 1].terminal_count = @ - removable],
                           path, kNumBits, removable)]

\* Variant of Erase that removes at most one copy whatever count is: the
\* body of the one-argument overload used for the two-argument one.
EraseSingle(t, value, count) ==
    IF count = 0 THEN t
    ELSE LET path == ErasePath(t.nodes_, 0, kNumBits - 1, ToStored(t, value), <<0>>)
         IN IF path = <<>> THEN t
            ELSE LET node_index == path[kNumBits + 1]
                     removable == Min(1, t.nodes_[node_index + 1].terminal_count)
                 IN IF removable = 0 THEN t
                    ELSE [t EXCEPT !.nodes_ = EraseSubtract(
                           [t.nodes_ EXCEPT ![node_index + 1].terminal_count = @ - removable],
                           path, kNumBits, removable)]

\* Variant of Erase without `terminal_count -= removable`.
EraseKeepTerminal(t, value, count) ==
    IF count = 0 THEN t
    ELSE LET path == ErasePath(t.nodes_, 0, kNumBits - 1, ToStored(t, value), <<0>>)
         IN IF path = <<>> THEN t
            ELSE LET node_index == path[kNumBits + 1]
                     removable == Min(count, t.nodes_[node_index + 1].terminal_count)
                 IN IF removable = 0 THEN t
                    ELSE [t EXCEPT !.nodes_ = EraseSubtract(t.nodes_, path, kNumBits,
                                                           removable)]

\* Variant of Erase that clamps count by TotalCount() instead of by the
\* terminal count of the value.
EraseClampTotal(t, value, count) ==
    IF count = 0 THEN t
    ELSE LET path == ErasePath(t.nodes_, 0, kNumBits - 1, ToStored(t, value), <<0>>)
         IN IF path = <<>> THEN t
            ELSE LET node_index == path[kNumBits + 1]
                     removable == Min(count, t.nodes_[1].subtree_count)
                 IN IF removable = 0 THEN t
                    ELSE [t EXCEPT !.nodes_ = EraseSubtract(
                           [t.nodes_ EXCEPT ![node_index + 1].terminal_count = @ - removable],
                           path, kNumBits, removable)]

\* Variant of Erase that reclaims a leaf whose count has fallen to zero by
\* clearing the link of its parent.
ErasePrune(t, value, count) ==
    IF count = 0 THEN t
    ELSE LET path == ErasePath(t.nodes_, 0, kNumBits - 1, ToStored(t, value), <<0>>)
         IN IF path = <<>> THEN t
            ELSE LET node_index == path[kNumBits + 1]
                     parent_index == path[kNumBits]
                     removable == Min(count, t.nodes_[node_index + 1].terminal_count)
                     erased == EraseSubtract(
                         [t.nodes_ EXCEPT ![node_index + 1].terminal_count = @ - removable],
                         path, kNumBits, removable)
                 IN IF removable = 0 THEN t
                    ELSE IF erased[node_index + 1].subtree_count > 0
                    THEN [t EXCEPT !.nodes_ = erased]
                    ELSE [t EXCEPT !.nodes_ =
                            [erased EXCEPT ![parent_index + 1].children[
                                BitAt(ToStored(t, value), 0) + 1] = kNull]]

\* The object after Erase(value, count).
Erase(t, value, count) ==
    IF count = 0 THEN t
    ELSE LET path == ErasePath(t.nodes_, 0, kNumBits - 1, ToStored(t, value), <<0>>)
         IN IF path = <<>> THEN t
            ELSE LET node_index == path[kNumBits + 1]
                     removable == Min(count, t.nodes_[node_index + 1].terminal_count)
                 IN IF removable = 0 THEN t
                    ELSE [t EXCEPT !.nodes_ = EraseSubtract(
                           [t.nodes_ EXCEPT ![node_index + 1].terminal_count = @ - removable],
                           path, kNumBits, removable)]

\* Variant of XorAll that assigns the mask instead of xor-ing it in.
XorAllAssign(t, mask) == [t EXCEPT !.xor_mask_ = BitAnd(mask, BitMask)]

\* Variant of XorAll with `|=` in place of `^=`: a | b = a + b - (a & b).
XorAllOr(t, mask) ==
    [t EXCEPT !.xor_mask_ = @ + BitAnd(mask, BitMask) - BitAnd(@, BitAnd(mask, BitMask))]

\* Variant of XorAll without `& BitMask()`.
XorAllUnmasked(t, mask) == [t EXCEPT !.xor_mask_ = BitXor(@, mask)]

\* The object after XorAll(mask).
XorAll(t, mask) == [t EXCEPT !.xor_mask_ = BitXor(@, BitAnd(mask, BitMask))]

(***************************************************************************)
(* Queries.                                                                *)
(***************************************************************************)
\* std::optional<ValueType>: std::nullopt, or a value.
NullOpt == [has |-> FALSE, val |-> 0]
Some(x) == [has |-> TRUE, val |-> x]

RECURSIVE CountLoop(_, _, _, _)
CountLoop(ns, node_index, bit, stored_value) ==
    IF bit < 0 THEN ns[node_index + 1].terminal_count
    ELSE LET direction == BitAt(stored_value, bit)
             child_index == ChildOf(ns, node_index, direction)
         IN IF child_index = kNull THEN 0
            ELSE CountLoop(ns, child_index, bit - 1, stored_value)

Count(t, value) == CountLoop(t.nodes_, 0, kNumBits - 1, ToStored(t, value))

TotalCount(t) == t.nodes_[1].subtree_count

\* Variant of Contains that asks whether the stored path of value is linked,
\* whatever its terminal_count.
ContainsLinked(t, value) ==
    ErasePath(t.nodes_, 0, kNumBits - 1, ToStored(t, value), <<0>>) # <<>>

Contains(t, value) == Count(t, value) > 0

\* Variant of CountLessLoop that takes children[0] for the logical 0 branch
\* whatever the mask bit is.
RECURSIVE CountLessLoopNoMask(_, _, _, _, _)
CountLessLoopNoMask(t, node_index, bit, value, result) ==
    IF bit < 0 \/ node_index = kNull THEN result
    ELSE LET zero_child == ChildOf(t.nodes_, node_index, 0)
             one_child == ChildOf(t.nodes_, node_index, 1)
             actual_bit == BitAt(value, bit)
         IN IF actual_bit = 1
            THEN CountLessLoopNoMask(t, one_child, bit - 1, value,
                                     result + SubtreeCount(t, zero_child))
            ELSE CountLessLoopNoMask(t, zero_child, bit - 1, value, result)

\* Body of the loop of CountLess from level `bit` down.
RECURSIVE CountLessLoop(_, _, _, _, _)
CountLessLoop(t, node_index, bit, value, result) ==
    IF bit < 0 \/ node_index = kNull THEN result
    ELSE LET mask_bit == BitAt(t.xor_mask_, bit)
             zero_child == ChildOf(t.nodes_, node_index, mask_bit)
             one_child == ChildOf(t.nodes_, node_index, 1 - mask_bit)
             actual_bit == BitAt(value, bit)
         IN IF actual_bit = 1
            THEN CountLessLoop(t, one_child, bit - 1, value,
                               result + SubtreeCount(t, zero_child))
            ELSE CountLessLoop(t, zero_child, bit - 1, value, result)

\* Variant of CountLess that also counts the copies of value itself.
CountLessInclusive(t, value) ==
    CountLessLoop(t, 0, kNumBits - 1, value, 0) + Count(t, value)

CountLess(t, value) == CountLessLoop(t, 0, kNumBits - 1, value, 0)

\* Variant of CountGreater that subtracts only the values below.
CountGreaterNoEqual(t, value) ==
    ToCountType(TotalCount(t) - CountLess(t, value))

CountGreater(t, value) ==
    LET less == CountLess(t, value)
        equal == Count(t, value)
    IN ToCountType(TotalCount(t) - less - equal)

\* Variant of KthLoop without `remaining -= zero_count`.
RECURSIVE KthLoopKeepRank(_, _, _, _, _)
KthLoopKeepRank(t, node_index, bit, stored_value, remaining) ==
    IF bit < 0 THEN [has |-> TRUE, val |-> ToActual(t, stored_value)]
    ELSE LET mask_bit == BitAt(t.xor_mask_, bit)
             zero_child == ChildOf(t.nodes_, node_index, mask_bit)
             zero_count == ToUnsigned(SubtreeCount(t, zero_child))
             one_child == ChildOf(t.nodes_, node_index, 1 - mask_bit)
         IN IF remaining < zero_count
            THEN KthLoopKeepRank(t, zero_child, bit - 1,
                         IF mask_bit = 1 THEN SetBit(stored_value, bit) ELSE stored_value,
                         remaining)
            ELSE IF one_child = kNull \/ SubtreeCount(t, one_child) <= 0
                 THEN [has |-> FALSE, val |-> 0]
                 ELSE KthLoopKeepRank(t, one_child, bit - 1,
                              IF 1 - mask_bit = 1 THEN SetBit(stored_value, bit)
                                                  ELSE stored_value,
                              remaining)

\* Body of the descent loop of Kth from level `bit` down; `remaining` is an
\* UnsignedCount.
RECURSIVE KthLoop(_, _, _, _, _)
KthLoop(t, node_index, bit, stored_value, remaining) ==
    IF bit < 0 THEN Some(ToActual(t, stored_value))
    ELSE LET mask_bit == BitAt(t.xor_mask_, bit)
             zero_child == ChildOf(t.nodes_, node_index, mask_bit)
             zero_count == ToUnsigned(SubtreeCount(t, zero_child))
             one_child == ChildOf(t.nodes_, node_index, 1 - mask_bit)
         IN IF remaining < zero_count
            THEN KthLoop(t, zero_child, bit - 1,
                         IF mask_bit = 1 THEN SetBit(stored_value, bit) ELSE stored_value,
                         remaining)
            ELSE IF one_child = kNull \/ SubtreeCount(t, one_child) <= 0
                 THEN NullOpt
                 ELSE KthLoop(t, one_child, bit - 1,
                              IF 1 - mask_bit = 1 THEN SetBit(stored_value, bit)
                                                  ELSE stored_value,
                              ToUnsigned(remaining - zero_count))

Kth(t, k) ==
    IF k < 0 THEN NullOpt
    ELSE IF TotalCount(t) <= 0 THEN NullOpt
    ELSE IF ToUnsigned(k) >= ToUnsigned(TotalCount(t)) THEN NullOpt
    ELSE KthLoop(t, 0, kNumBits - 1, 0, ToUnsigned(k))

\* Variant of ChildForActualBit that indexes children by the actual bit.
ChildForActualBitRaw(t, node_index, bit, actual_bit) ==
    ChildOf(t.nodes_, node_index, actual_bit)

ChildForActualBit(t, node_index, bit, actual_bit) ==
    LET stored_bit == (actual_bit + BitAt(t.xor_mask_, bit)) % 2
    IN ChildOf(t.nodes_, node_index, stored_bit)

\* Variant of FindLowerBound whose untight loop stops after actual_bit 0.
RECURSIVE FindLowerBoundFirstOnly(_, _, _, _, _, _)
FindLowerBoundFirstOnly(t, node_index, bit, target, prefix_actual, tight) ==
    IF node_index = kNull \/ SubtreeCount(t, node_index) <= 0 THEN NullOpt
    ELSE IF bit < 0
    THEN IF t.nodes_[node_index + 1].terminal_count > 0 THEN Some(prefix_actual)
         ELSE NullOpt
    ELSE
      LET target_bit == BitAt(target, bit)
          Try(actual_bit, tight_below) ==
              LET child == ChildForActualBit(t, node_index, bit, actual_bit)
              IN IF child = kNull THEN NullOpt
                 ELSE FindLowerBoundFirstOnly(t, child, bit - 1, target,
                                              prefix_actual + actual_bit * Pow2(bit),
                                              tight_below)
      IN IF tight
         THEN LET same == Try(target_bit, TRUE)
              IN IF same.has THEN same
                 ELSE IF target_bit = 0
                      THEN Try(1, FALSE)
                      ELSE NullOpt
         ELSE Try(0, FALSE)

\* FindLowerBound: NullOpt models `return false`, Some(x) models
\* `*result = x; return true`.
RECURSIVE FindLowerBound(_, _, _, _, _, _)
FindLowerBound(t, node_index, bit, target, prefix_actual, tight) ==
    IF node_index = kNull \/ SubtreeCount(t, node_index) <= 0 THEN NullOpt
    ELSE IF bit < 0
    THEN IF t.nodes_[node_index + 1].terminal_count > 0 THEN Some(prefix_actual)
         ELSE NullOpt
    ELSE
      LET target_bit == BitAt(target, bit)
          Try(actual_bit, tight_below) ==
              LET child == ChildForActualBit(t, node_index, bit, actual_bit)
              IN IF child = kNull THEN NullOpt
                 ELSE FindLowerBound(t, child, bit - 1, target,
                                     prefix_actual + actual_bit * Pow2(bit),
                                     tight_below)
      IN IF tight
         THEN LET same == Try(target_bit, TRUE)
              IN IF same.has THEN same
                 ELSE IF target_bit = 0
                      THEN Try(1, FALSE)
                      ELSE NullOpt
         ELSE LET zero == Try(0, FALSE)
              IN IF zero.has THEN zero ELSE Try(1, FALSE)

\* Variant of LowerBound that starts the search with tight = false.
LowerBoundUntight(t, value) ==
    IF TotalCount(t) <= 0 THEN NullOpt
    ELSE LET found == FindLowerBound(t, 0, kNumBits - 1, BitAnd(value, BitMask), 0, FALSE)
         IN IF found.has THEN Some(BitAnd(found.val, BitMask)) ELSE NullOpt

LowerBound(t, value) ==
    IF TotalCount(t) <= 0 THEN NullOpt
    ELSE LET found == FindLowerBound(t, 0, kNumBits - 1, BitAnd(value, BitMask), 0, TRUE)
         IN IF found.has THEN Some(BitAnd(found.val, BitMask)) ELSE NullOpt

\* Variant of FindPrev whose untight loop runs actual_bit from 0 up to 1, as
\* the loop of FindLowerBound does.
RECURSIVE FindPrevAscending(_, _, _, _, _, _)
FindPrevAscending(t, node_index, bit, target, prefix_actual, tight) ==
    IF node_index = kNull \/ SubtreeCount(t, node_index) <= 0
    THEN [has |-> FALSE, val |-> 0]
    ELSE IF bit < 0
    THEN IF t.nodes_[node_index + 1].terminal_count > 0
         THEN [has |-> TRUE, val |-> prefix_actual]
         ELSE [has |-> FALSE, val |-> 0]
    ELSE
      LET target_bit == BitAt(target, bit)
          Try(actual_bit, tight_below) ==
              LET child == ChildOf(t.nodes_, node_index,
                                   (actual_bit + BitAt(t.xor_mask_, bit)) % 2)
              IN IF child = kNull THEN [has |-> FALSE, val |-> 0]
                 ELSE FindPrevAscending(t, child, bit - 1, target,
                                        prefix_actual + actual_bit * Pow2(bit),
                                        tight_below)
      IN IF tight
         THEN LET same == Try(target_bit, TRUE)
              IN IF same.has THEN same
                 ELSE IF target_bit = 1
                      THEN Try(0, FALSE)
                      ELSE [has |-> FALSE, val |-> 0]
         ELSE LET zero == Try(0, FALSE)
              IN IF zero.has THEN zero ELSE Try(1, FALSE)

RECURSIVE FindPrev(_, _, _, _, _, _)
FindPrev(t, node_index, bit, target, prefix_actual, tight) ==
    IF node_index = kNull \/ SubtreeCount(t, node_index) <= 0 THEN NullOpt
    ELSE IF bit < 0
    THEN IF t.nodes_[node_index + 1].terminal_count > 0 THEN Some(prefix_actual)
         ELSE NullOpt
    ELSE
      LET target_bit == BitAt(target, bit)
          Try(actual_bit, tight_below) ==
              LET child == ChildForActualBit(t, node_index, bit, actual_bit)
              IN IF child = kNull THEN NullOpt
                 ELSE FindPrev(t, child, bit - 1, target,
                               prefix_actual + actual_bit * Pow2(bit),
                               tight_below)
      IN IF tight
         THEN LET same == Try(target_bit, TRUE)
              IN IF same.has THEN same
                 ELSE IF target_bit = 1
                      THEN Try(0, FALSE)
                      ELSE NullOpt
         ELSE LET one == Try(1, FALSE)
              IN IF one.has THEN one ELSE Try(0, FALSE)

Prev(t, value) ==
    IF TotalCount(t) <= 0 THEN NullOpt
    ELSE LET found == FindPrev(t, 0, kNumBits - 1, BitAnd(value, BitMask), 0, TRUE)
         IN IF found.has THEN Some(BitAnd(found.val, BitMask)) ELSE NullOpt

\* Variant of the loop of FindExtremeXor without the fallback to the
\* opposite child.
RECURSIVE FindExtremeXorLoopNoFallback(_, _, _, _, _, _)
FindExtremeXorLoopNoFallback(t, node_index, bit, key, maximize, result) ==
    IF bit < 0 THEN Some(result)
    ELSE LET desired == (BitAt(key, bit) + maximize) % 2
             child == ChildOf(t.nodes_, node_index, desired)
         IN IF child = kNull \/ SubtreeCount(t, child) <= 0
            THEN NullOpt
            ELSE FindExtremeXorLoopNoFallback(t, child, bit - 1, key, maximize,
                        IF desired = 1 THEN SetBit(result, bit) ELSE result)

\* Body of the loop of FindExtremeXor from level `bit` down; `maximize` is
\* static_cast<int>(maximize), 0 or 1.
RECURSIVE FindExtremeXorLoop(_, _, _, _, _, _)
FindExtremeXorLoop(t, node_index, bit, key, maximize, result) ==
    IF bit < 0 THEN Some(result)
    ELSE LET desired == (BitAt(key, bit) + maximize) % 2
             child == ChildOf(t.nodes_, node_index, desired)
             other == ChildOf(t.nodes_, node_index, 1 - desired)
         IN IF child = kNull \/ SubtreeCount(t, child) <= 0
            THEN IF other = kNull \/ SubtreeCount(t, other) <= 0
                 THEN NullOpt
                 ELSE FindExtremeXorLoop(t, other, bit - 1, key, maximize,
                        IF 1 - desired = 1 THEN SetBit(result, bit) ELSE result)
            ELSE FindExtremeXorLoop(t, child, bit - 1, key, maximize,
                        IF desired = 1 THEN SetBit(result, bit) ELSE result)

\* Variant of FindExtremeXor whose key is `value` itself, without xor_mask_.
FindExtremeXorRawKey(t, value, maximize) ==
    IF t.nodes_[1].subtree_count <= 0 THEN [has |-> FALSE, val |-> 0]
    ELSE FindExtremeXorLoop(t, 0, kNumBits - 1, BitAnd(value, BitMask),
                            IF maximize THEN 1 ELSE 0, 0)

FindExtremeXor(t, value, maximize) ==
    IF TotalCount(t) <= 0 THEN NullOpt
    ELSE FindExtremeXorLoop(t, 0, kNumBits - 1,
                            BitAnd(BitXor(value, t.xor_mask_), BitMask),
                            IF maximize THEN 1 ELSE 0, 0)

MaxXor(t, value) ==
    LET stored == FindExtremeXor(t, BitAnd(value, BitMask), TRUE)
    IN IF ~stored.has THEN NullOpt
       ELSE Some(BitAnd(BitXor(ToActual(t, stored.val), value), BitMask))

\* Variant of MinXor that xors the stored value found, without ToActual.
MinXorOfStored(t, value) ==
    LET stored == FindExtremeXor(t, BitAnd(value, BitMask), FALSE)
    IN IF ~stored.has THEN [has |-> FALSE, val |-> 0]
       ELSE [has |-> TRUE, val |-> BitAnd(BitXor(stored.val, value), BitMask)]

MinXor(t, value) ==
    LET stored == FindExtremeXor(t, BitAnd(value, BitMask), FALSE)
    IN IF ~stored.has THEN NullOpt
       ELSE Some(BitAnd(BitXor(ToActual(t, stored.val), value), BitMask))

(***************************************************************************)
(* The assertions of a checked build (NDEBUG not defined): for each public *)
(* operation, whether the call reaches an assert whose condition is false  *)
(* and so ends the program before the operation returns.                   *)
(***************************************************************************)
\* (value & ~mask) == 0
FitsWidth(value) == BitAnd(value, BitMask) = value

\* Insert: assert(count >= 0); return on count == 0; then the width assert.
InsertAborts(t, value, count) ==
    IF count < 0 THEN TRUE
    ELSE IF count = 0 THEN FALSE
    ELSE ~FitsWidth(value)

\* Erase: assert(count >= 0); return on count == 0; then the width assert.
EraseAborts(t, value, count) ==
    IF count < 0 THEN TRUE
    ELSE IF count = 0 THEN FALSE
    ELSE ~FitsWidth(value)

CountAborts(t, value) == ~FitsWidth(value)

\* Contains calls Count.
ContainsAborts(t, value) == CountAborts(t, value)

CountLessAborts(t, value) == ~FitsWidth(value)

\* CountGreater calls CountLess, then Count.
CountGreaterAborts(t, value) == CountLessAborts(t, value) \/ CountAborts(t, value)

\* Variant of LowerBoundAborts with the assert ahead of the TotalCount() test.
LowerBoundAbortsFirst(t, value) == ~FitsWidth(value)

\* LowerBound: return on TotalCount() <= 0; then the width assert.
LowerBoundAborts(t, value) ==
    IF TotalCount(t) <= 0 THEN FALSE ELSE ~FitsWidth(value)

\* Prev: return on TotalCount() <= 0; then the width assert.
PrevAborts(t, value) ==
    IF TotalCount(t) <= 0 THEN FALSE ELSE ~FitsWidth(value)

\* MaxXor and MinXor assert first.
MaxXorAborts(t, value) == ~FitsWidth(value)

MinXorAborts(t, value) == ~FitsWidth(value)

\* XorAll has no assert: it masks its argument.
XorAllAborts(t, mask) == FALSE

(***************************************************************************)
(***************************************************************************)
(* The state machine: one action per public operation, applied to the      *)
(* object held in the variables.  A call that reaches a failing assert     *)
(* ends the program, so it has no successor state; counts are drawn from   *)
(* the non-negative range.  The queries are const member functions and     *)
(* leave the object unchanged.                                             *)
(***************************************************************************)
This == [nodes_ |-> nodes_, xor_mask_ |-> xor_mask_]

Becomes(t) ==
    /\ nodes_' = t.nodes_
    /\ xor_mask_' = t.xor_mask_
    /\ UNCHANGED <<trie_vars, lis_vars>>

Optionals == [has : BOOLEAN, val : ValueTypeRange]

Init ==
    /\ nodes_ = BinaryTrie.nodes_
    /\ xor_mask_ = BinaryTrie.xor_mask_
    /\ NoTrie
    /\ NoLis

CallInsert(value, count) ==
    /\ ~InsertAborts(This, value, count)
    /\ TotalCount(This) + count <= MaxTotal
    /\ Becomes(Insert(This, value, count))

CallErase(value, count) ==
    /\ ~EraseAborts(This, value, count)
    /\ Becomes(Erase(This, value, count))

CallXorAll(mask) ==
    /\ ~XorAllAborts(This, mask)
    /\ Becomes(XorAll(This, mask))

CallCount(value) ==
    /\ ~CountAborts(This, value)
    /\ Count(This, value) \in Int
    /\ UNCHANGED all_vars

CallContains(value) ==
    /\ ~ContainsAborts(This, value)
    /\ Contains(This, value) \in BOOLEAN
    /\ UNCHANGED all_vars

CallTotalCount == TotalCount(This) \in Int /\ UNCHANGED all_vars

CallCountLess(value) ==
    /\ ~CountLessAborts(This, value)
    /\ CountLess(This, value) \in Int
    /\ UNCHANGED all_vars

CallCountGreater(value) ==
    /\ ~CountGreaterAborts(This, value)
    /\ CountGreater(This, value) \in Int
    /\ UNCHANGED all_vars

CallKth(k) == Kth(This, k) \in Optionals /\ UNCHANGED all_vars

CallLowerBound(value) ==
    /\ ~LowerBoundAborts(This, value)
    /\ LowerBound(This, value) \in Optionals
    /\ UNCHANGED all_vars

CallPrev(value) ==
    /\ ~PrevAborts(This, value)
    /\ Prev(This, value) \in Optionals
    /\ UNCHANGED all_vars

CallMaxXor(value) ==
    /\ ~MaxXorAborts(This, value)
    /\ MaxXor(This, value) \in Optionals
    /\ UNCHANGED all_vars

CallMinXor(value) ==
    /\ ~MinXorAborts(This, value)
    /\ MinXor(This, value) \in Optionals
    /\ UNCHANGED all_vars

Next ==
    \/ \E value \in ValueTypeRange, count \in 0 .. MaxCount : CallInsert(value, count)
    \/ \E value \in ValueTypeRange, count \in 0 .. MaxCount : CallErase(value, count)
    \/ \E mask \in ValueTypeRange : CallXorAll(mask)
    \/ \E value \in ValueTypeRange : CallCount(value)
    \/ \E value \in ValueTypeRange : CallContains(value)
    \/ CallTotalCount
    \/ \E value \in ValueTypeRange : CallCountLess(value)
    \/ \E value \in ValueTypeRange : CallCountGreater(value)
    \/ \E k \in -1 .. (MaxTotal + 1) : CallKth(k)
    \/ \E value \in ValueTypeRange : CallLowerBound(value)
    \/ \E value \in ValueTypeRange : CallPrev(value)
    \/ \E value \in ValueTypeRange : CallMaxXor(value)
    \/ \E value \in ValueTypeRange : CallMinXor(value)

Spec == Init /\ [][Next]_all_vars

(***************************************************************************)
(* The logical multiset of an object, read through Count.                  *)
(***************************************************************************)
NodeIndices == 0 .. (Len(nodes_) - 1)

\* Number of stored copies, counted by Count, of the values below v.
RECURSIVE CountBelow(_, _)
CountBelow(t, v) == IF v <= 0 THEN 0 ELSE Count(t, v - 1) + CountBelow(t, v - 1)

Present == { x \in InWidth : Count(This, x) > 0 }

\* An arena node that carries no element: left behind by Erase.
HasZeroCountNode == \E i \in NodeIndices : i # 0 /\ nodes_[i + 1].subtree_count = 0

\* The calls the mutating actions can make in the current state.
InsertArgs ==
    { a \in InWidth \X (0 .. MaxCount) : TotalCount(This) + a[2] <= MaxTotal }

(***************************************************************************)
(* Structural invariants.                                                  *)
(***************************************************************************)
\* C1: every node of the arena satisfies
\* subtree_count = terminal_count + subtree_count(child0) + subtree_count(child1),
\* an absent child counting as 0, in every reachable state.
SubtreeCountInvariant ==
    \A i \in NodeIndices :
        nodes_[i + 1].subtree_count =
            nodes_[i + 1].terminal_count
            + SubtreeCount(This, ChildOf(nodes_, i, 0))
            + SubtreeCount(This, ChildOf(nodes_, i, 1))

\* A state with a nonzero mask, elements on both sides of the root and a
\* zero-count node left by an erasure: every mutator has acted.
SubtreeCountWitness ==
    /\ xor_mask_ # 0
    /\ HasZeroCountNode
    /\ TotalCount(This) >= 2
    /\ SubtreeCount(This, ChildOf(nodes_, 0, 0)) > 0
    /\ SubtreeCount(This, ChildOf(nodes_, 0, 1)) > 0

(***************************************************************************)
(* Effect of the mutators on the logical multiset: in every reachable      *)
(* state, for every call the action can make, the object after the call    *)
(* is compared with the object before it.                                  *)
(***************************************************************************)
\* C2: Insert(value, count), under any current mask, raises Count(value) and
\* TotalCount by exactly count and leaves Count(u) unchanged for every
\* u # value; with count = 0 it changes nothing.
InsertEffect ==
    \A a \in InsertArgs :
        LET value == a[1]
            count == a[2]
            after == Insert(This, value, count)
        IN /\ Count(after, value) = Count(This, value) + count
           /\ TotalCount(after) = TotalCount(This) + count
           /\ \A u \in InWidth \ {value} : Count(after, u) = Count(This, u)
           /\ (count = 0 => after = This)

\* Under a nonzero mask, and with a node emptied by Erase in the arena, an
\* Insert of a value that is stored on a path other than its own bits, and
\* of a value not stored yet, can be called.
InsertEffectWitness ==
    /\ xor_mask_ # 0
    /\ HasZeroCountNode
    /\ \E v \in InWidth : Count(This, v) >= 1 /\ ToStored(This, v) # v
                          /\ <<v, 1>> \in InsertArgs
    /\ \E v \in InWidth : Count(This, v) = 0 /\ <<v, MaxCount>> \in InsertArgs

\* C3: Erase(value, count) with count > 0, under any current mask, lowers
\* Count(value) and TotalCount by exactly min(count, Count(value)) and leaves
\* Count(u) unchanged for every u # value.
EraseEffect ==
    \A value \in InWidth, count \in 1 .. MaxCount :
        LET after == Erase(This, value, count)
            removed == Min(count, Count(This, value))
        IN /\ Count(after, value) = Count(This, value) - removed
           /\ TotalCount(after) = TotalCount(This) - removed
           /\ \A u \in InWidth \ {value} : Count(after, u) = Count(This, u)

\* Under a nonzero mask one value is stored fewer times than Erase can be
\* asked to remove, another is stored at least that often, and a leaf has
\* already been emptied by Erase.
EraseEffectWitness ==
    /\ xor_mask_ # 0
    /\ \E v \in InWidth : Count(This, v) = 1
    /\ \E v \in InWidth : Count(This, v) >= MaxCount
    /\ \E v \in InWidth :
         /\ Count(This, v) = 0
         /\ ErasePath(nodes_, 0, kNumBits - 1, ToStored(This, v), <<0>>) # <<>>

\* C4: XorAll(mask) replaces every element x by x XOR mask: afterwards
\* Count(v) is what Count(v XOR (mask & BitMask)) was before, for every
\* in-width v, and TotalCount is unchanged; in every reachable state, hence
\* after any earlier XorAll, Insert and Erase calls.
XorAllEffect ==
    \A mask \in ValueTypeRange :
        LET after == XorAll(This, mask)
        IN /\ \A v \in InWidth :
                Count(after, v) = Count(This, BitXor(v, BitAnd(mask, BitMask)))
           /\ TotalCount(after) = TotalCount(This)

\* The mask is already nonzero (an earlier XorAll), a node has been emptied
\* by Erase, and some present value sits on the path of an absent one, so a
\* further XorAll moves it.
XorAllEffectWitness ==
    /\ xor_mask_ # 0
    /\ HasZeroCountNode
    /\ \E v \in InWidth : Count(This, v) > 0 /\ Count(This, ToStored(This, v)) = 0

(***************************************************************************)
(* The queries against the logical multiset.  Present is the set of values *)
(* with Count > 0 and CountBelow(v) the number of copies of values below   *)
(* v, so position k of the ascending list holds the value x with           *)
(* CountBelow(x) <= k < CountBelow(x) + Count(x).                          *)
(***************************************************************************)
SetMin(S) == CHOOSE x \in S : \A y \in S : x <= y
SetMax(S) == CHOOSE x \in S : \A y \in S : y <= x

\* A top-level bit prefix shared by two values.
SameTopBit(x, y) == BitAt(x, kNumBits - 1) = BitAt(y, kNumBits - 1)

\* C5: Kth(k) returns the element at 0-based position k of the ascending
\* list of the logical multiset (duplicates on consecutive positions) when
\* 0 <= k < TotalCount(), and nullopt when k < 0 or k >= TotalCount(), under
\* any mask and after any erasures.
KthCorrect ==
    \A k \in -1 .. (MaxTotal + 1) :
        LET r == Kth(This, k)
        IN IF 0 <= k /\ k < TotalCount(This)
           THEN /\ r.has
                /\ r.val \in InWidth
                /\ CountBelow(This, r.val) <= k
                /\ k < CountBelow(This, r.val) + Count(This, r.val)
           ELSE ~r.has

\* Under a nonzero mask and with a node emptied by Erase, a value stored
\* twice fills two consecutive positions after a smaller value.
KthWitness ==
    /\ xor_mask_ # 0
    /\ HasZeroCountNode
    /\ \E k \in 1 .. MaxTotal :
         /\ Kth(This, k).has /\ Kth(This, k + 1).has
         /\ Kth(This, k).val = Kth(This, k + 1).val
         /\ Kth(This, k - 1).val < Kth(This, k).val
    /\ ~Kth(This, TotalCount(This)).has

\* C6: CountLess(v) is the number of stored elements, with multiplicity,
\* whose logical value is strictly less than v, under any mask and with
\* zero-count nodes left behind by Erase.
CountLessCorrect ==
    \A v \in InWidth : CountLess(This, v) = CountBelow(This, v)

\* Under a nonzero mask and with a node emptied by Erase, some v has a value
\* stored twice below it and another value at or above it.
CountLessWitness ==
    /\ xor_mask_ # 0
    /\ HasZeroCountNode
    /\ \E v \in InWidth :
         /\ CountLess(This, v) >= 2
         /\ CountLess(This, v) < TotalCount(This)
         /\ \E x \in Present : x < v /\ Count(This, x) >= 2

\* C7: LowerBound(v) returns the smallest logical value x with Count(x) > 0
\* and x >= v, and nullopt exactly when there is none, under any mask and
\* after any erasures.
LowerBoundCorrect ==
    \A v \in InWidth :
        LET above == { x \in Present : x >= v }
        IN LowerBound(This, v) = IF above = {} THEN NullOpt ELSE Some(SetMin(above))

\* Under a nonzero mask and with a node emptied by Erase: the answer for
\* some v lies in the other half of the value range although a smaller
\* value shares v's top bit (the tight branch is entered and fails), and
\* some v has no answer although the trie is not empty.
LowerBoundWitness ==
    /\ xor_mask_ # 0
    /\ HasZeroCountNode
    /\ \E v \in InWidth :
         /\ \E x \in Present : x < v /\ SameTopBit(x, v)
         /\ LowerBound(This, v).has
         /\ ~SameTopBit(LowerBound(This, v).val, v)
    /\ \E v \in InWidth : TotalCount(This) > 0 /\ ~LowerBound(This, v).has

\* C8: Prev(v) returns the largest logical value x with Count(x) > 0 and
\* x <= v, and nullopt exactly when there is none, under any mask and after
\* any erasures.
PrevCorrect ==
    \A v \in InWidth :
        LET below == { x \in Present : x <= v }
        IN Prev(This, v) = IF below = {} THEN NullOpt ELSE Some(SetMax(below))

\* Under a nonzero mask and with a node emptied by Erase: the answer for
\* some v lies in the other half of the value range although a larger value
\* shares v's top bit (the tight branch is entered and fails), and some v
\* has no answer although the trie is not empty.
PrevWitness ==
    /\ xor_mask_ # 0
    /\ HasZeroCountNode
    /\ \E v \in InWidth :
         /\ \E x \in Present : x > v /\ SameTopBit(x, v)
         /\ Prev(This, v).has
         /\ ~SameTopBit(Prev(This, v).val, v)
    /\ \E v \in InWidth : TotalCount(This) > 0 /\ ~Prev(This, v).has

\* C9: whenever TotalCount() > 0, MaxXor(v) returns the maximum of x XOR v
\* over the logical values x with Count(x) > 0, also after XorAll with a
\* nonzero mask and after erasures.
MaxXorCorrect ==
    TotalCount(This) > 0 =>
        \A v \in InWidth :
            LET r == MaxXor(This, v)
            IN /\ r.has
               /\ \E x \in Present : r.val = BitXor(x, v)
               /\ \A x \in Present : BitXor(x, v) <= r.val

\* Under a nonzero mask and with a node emptied by Erase, two values are
\* present and for some v the complement of v is not among them, so the
\* descent has to take a child other than the desired one.
MaxXorWitness ==
    /\ xor_mask_ # 0
    /\ HasZeroCountNode
    /\ Cardinality(Present) >= 2
    /\ \E v \in InWidth : MaxXor(This, v).has /\ MaxXor(This, v).val < BitMask

\* C10: whenever TotalCount() > 0, MinXor(v) returns the minimum of x XOR v
\* over the logical values x with Count(x) > 0, also after XorAll with a
\* nonzero mask and after erasures.
MinXorCorrect ==
    TotalCount(This) > 0 =>
        \A v \in InWidth :
            LET r == MinXor(This, v)
            IN /\ r.has
               /\ \E x \in Present : r.val = BitXor(x, v)
               /\ \A x \in Present : r.val <= BitXor(x, v)

\* Under a nonzero mask and with a node emptied by Erase, two values are
\* present and some v is not among them, so the descent has to take a child
\* other than the desired one.
MinXorWitness ==
    /\ xor_mask_ # 0
    /\ HasZeroCountNode
    /\ Cardinality(Present) >= 2
    /\ \E v \in InWidth : MinXor(This, v).has /\ MinXor(This, v).val > 0


(***************************************************************************)
(* Algebraic properties of the mutators.                                   *)
(***************************************************************************)
\* C11: from any reachable state, for any in-width v and any c >= 0,
\* Insert(v, c) immediately followed by Erase(v, c) returns Count(v) and
\* TotalCount() to their values before the Insert.
InsertEraseRoundTrip ==
    \A a \in InsertArgs :
        LET after == Erase(Insert(This, a[1], a[2]), a[1], a[2])
        IN /\ Count(after, a[1]) = Count(This, a[1])
           /\ TotalCount(after) = TotalCount(This)

\* Under a nonzero mask, a value already present can take two more copies,
\* and a value whose path is missing can take two: the round trip starts
\* both from an existing terminal and from a path Insert has to create.
InsertEraseRoundTripWitness ==
    /\ xor_mask_ # 0
    /\ \E a \in InsertArgs : a[2] = 2 /\ Count(This, a[1]) > 0
    /\ \E a \in InsertArgs :
           /\ a[2] = 2
           /\ ErasePath(nodes_, 0, kNumBits - 1, ToStored(This, a[1]), <<0>>) = <<>>


\* The result of every query of an object, for every argument.
QueryResults(t) ==
    [Count        |-> [v \in InWidth |-> Count(t, v)],
     Contains     |-> [v \in InWidth |-> Contains(t, v)],
     TotalCount   |-> TotalCount(t),
     CountLess    |-> [v \in InWidth |-> CountLess(t, v)],
     CountGreater |-> [v \in InWidth |-> CountGreater(t, v)],
     Kth          |-> [k \in -1 .. (MaxTotal + 1) |-> Kth(t, k)],
     LowerBound   |-> [v \in InWidth |-> LowerBound(t, v)],
     Prev         |-> [v \in InWidth |-> Prev(t, v)],
     MaxXor       |-> [v \in InWidth |-> MaxXor(t, v)],
     MinXor       |-> [v \in InWidth |-> MinXor(t, v)]]

\* C12: from any reachable state and for any mask m, XorAll(m) executed twice
\* in a row leaves the result of every query, for every argument, identical
\* to its result before the two calls.
XorAllTwiceIdentity ==
    \A mask \in ValueTypeRange :
        LET twice == XorAll(XorAll(This, mask), mask)
        IN  \* an object equal to the one before answers every query alike
            twice = This \/ QueryResults(twice) = QueryResults(This)

\* Elements are stored under a nonzero mask, a node has been emptied by
\* Erase, and some mask changes the answers of one call of XorAll - so the
\* second call has something to undo.
XorAllTwiceWitness ==
    /\ xor_mask_ # 0
    /\ HasZeroCountNode
    /\ Cardinality(Present) >= 2
    /\ \E mask \in ValueTypeRange :
           QueryResults(XorAll(This, mask)) # QueryResults(This)


(***************************************************************************)
(* Consistency between the queries.                                        *)
(***************************************************************************)
\* C13: in every reachable state and for every in-width v,
\* CountLess(v) + Count(v) + CountGreater(v) = TotalCount().
RankIdentity ==
    \A v \in InWidth :
        CountLess(This, v) + Count(This, v) + CountGreater(This, v) = TotalCount(This)

\* Under a nonzero mask and with a node emptied by Erase, some v has stored
\* values below it, equal to it and above it at once.
RankIdentityWitness ==
    /\ xor_mask_ # 0
    /\ HasZeroCountNode
    /\ \E v \in InWidth :
           /\ CountLess(This, v) > 0
           /\ Count(This, v) > 0
           /\ CountGreater(This, v) > 0


\* C14 as stated: for all k in [0, TotalCount()) for which Kth(k + 1) exists,
\* Kth(k) < Kth(k + 1).
KthStrictlyIncreasing ==
    \A k \in 0 .. (TotalCount(This) - 1) :
        Kth(This, k + 1).has => Kth(This, k).val < Kth(This, k + 1).val

\* C14, amended: for all k in [0, TotalCount()) for which Kth(k + 1) exists,
\* Kth(k) exists and Kth(k) <= Kth(k + 1); the two are equal only when they
\* are two copies of one value (Count of that value is at least 2), and
\* strictly increasing otherwise.
KthNonDecreasing ==
    \A k \in 0 .. (TotalCount(This) - 1) :
        Kth(This, k + 1).has =>
            /\ Kth(This, k).has
            /\ Kth(This, k).val <= Kth(This, k + 1).val
            /\ Kth(This, k).val = Kth(This, k + 1).val
                   => Count(This, Kth(This, k).val) >= 2

\* Under a nonzero mask the multiset holds two copies of one value and a
\* different value: one pair of consecutive ranks is equal, another is
\* strictly increasing.
KthNonDecreasingWitness ==
    /\ xor_mask_ # 0
    /\ \E k \in 0 .. (TotalCount(This) - 1) :
           /\ Kth(This, k + 1).has
           /\ Kth(This, k).val = Kth(This, k + 1).val
    /\ \E k \in 0 .. (TotalCount(This) - 1) :
           /\ Kth(This, k + 1).has
           /\ Kth(This, k).val < Kth(This, k + 1).val


\* C15: in every reachable state, for all k in [0, TotalCount()), Kth(k)
\* exists and CountLess(Kth(k)) <= k < CountLess(Kth(k)) + Count(Kth(k)).
RankSelectConsistency ==
    \A k \in 0 .. (TotalCount(This) - 1) :
        LET r == Kth(This, k)
        IN /\ r.has
           /\ CountLess(This, r.val) <= k
           /\ k < CountLess(This, r.val) + Count(This, r.val)

\* Under a nonzero mask and with a node emptied by Erase, some rank k lies
\* strictly inside a run of copies that does not start at rank 0:
\* 0 < CountLess(Kth(k)) < k.
RankSelectWitness ==
    /\ xor_mask_ # 0
    /\ HasZeroCountNode
    /\ \E k \in 0 .. (TotalCount(This) - 1) :
           /\ Kth(This, k).has
           /\ 0 < CountLess(This, Kth(This, k).val)
           /\ CountLess(This, Kth(This, k).val) < k


(***************************************************************************)
(* Absence.                                                                *)
(***************************************************************************)
\* C16: whenever TotalCount() = 0 - on the freshly constructed trie and after
\* every inserted copy has been erased, zero-count nodes remaining in the
\* arena - Kth(k) for every k and LowerBound(v), Prev(v), MaxXor(v), MinXor(v)
\* for every in-width v return the empty optional, and Count(v) = 0.
LogicalAbsence ==
    TotalCount(This) = 0 =>
        /\ \A k \in -1 .. (MaxTotal + 1) : Kth(This, k) = NullOpt
        /\ \A v \in InWidth :
               /\ LowerBound(This, v) = NullOpt
               /\ Prev(This, v) = NullOpt
               /\ MaxXor(This, v) = NullOpt
               /\ MinXor(This, v) = NullOpt
               /\ Count(This, v) = 0

\* An emptied trie under a nonzero mask: nothing is stored, yet the arena
\* holds complete paths on both sides of the root, all with zero counts.
LogicalAbsenceWitness ==
    /\ TotalCount(This) = 0
    /\ xor_mask_ # 0
    /\ ChildOf(nodes_, 0, 0) # kNull
    /\ ChildOf(nodes_, 0, 1) # kNull
    /\ \E v \in InWidth :
           ErasePath(nodes_, 0, kNumBits - 1, ToStored(This, v), <<0>>) # <<>>


\* C17: when Count(v) = 0 (the stored path is missing, or it exists with
\* terminal count zero) or when c = 0, Erase(v, c) leaves the whole state
\* unchanged: the arena with every link and count, and xor_mask_.
EraseAbsentNoOp ==
    \A v \in InWidth, c \in 0 .. MaxCount :
        (Count(This, v) = 0 \/ c = 0) => Erase(This, v, c) = This

\* The trie is not empty and its mask is nonzero; one absent value has no
\* stored path, another has a complete path whose terminal count is zero.
EraseAbsentWitness ==
    /\ xor_mask_ # 0
    /\ TotalCount(This) > 0
    /\ \E v \in InWidth :
           ErasePath(nodes_, 0, kNumBits - 1, ToStored(This, v), <<0>>) = <<>>
    /\ \E v \in InWidth :
           /\ Count(This, v) = 0
           /\ ErasePath(nodes_, 0, kNumBits - 1, ToStored(This, v), <<0>>) # <<>>


(***************************************************************************)
(* Frame conditions and the shape of the arena.                            *)
(***************************************************************************)
\* C18: xor_mask_ starts at 0; each XorAll(m) sets xor_mask_ to
\* xor_mask_ XOR (m & BitMask) - bit b of the result is bit b of xor_mask_
\* flipped when b < kNumBits and bit b of m is set, and kept otherwise - and
\* leaves the arena (number of nodes, every link, every subtree_count and
\* terminal_count) unchanged.
XorAllFrame ==
    /\ BinaryTrie.xor_mask_ = 0
    /\ \A mask \in ValueTypeRange :
           LET after == XorAll(This, mask)
           IN /\ after.nodes_ = nodes_
              /\ \A b \in 0 .. (Digits - 1) :
                     BitAt(after.xor_mask_, b) =
                         (BitAt(xor_mask_, b)
                          + (IF b < kNumBits THEN BitAt(mask, b) ELSE 0)) % 2

\* The arena holds elements and an emptied node, the mask is already
\* nonzero, and some mask with a bit above the tracked width changes it.
XorAllFrameWitness ==
    /\ xor_mask_ # 0
    /\ HasZeroCountNode
    /\ TotalCount(This) > 0
    /\ \E mask \in ValueTypeRange :
           /\ mask > BitMask
           /\ XorAll(This, mask).xor_mask_ \notin {0, xor_mask_}


\* The arena `new` has at least the nodes of `old`, and every link set in
\* `old` points to the same node in `new`.
LinksKept(old, new) ==
    /\ Len(new) >= Len(old)
    /\ \A i \in 0 .. (Len(old) - 1), d \in {0, 1} :
           ChildOf(old, i, d) # kNull => ChildOf(new, i, d) = ChildOf(old, i, d)

\* The arenas `old` and `new` have the same number of nodes and the same links.
SameShape(old, new) ==
    /\ Len(new) = Len(old)
    /\ \A i \in 0 .. (Len(old) - 1), d \in {0, 1} :
           ChildOf(new, i, d) = ChildOf(old, i, d)

\* C19: across every step of every operation sequence the number of arena
\* nodes does not decrease and a link, once set to a node index, is never
\* cleared or redirected; and in every reachable state Erase and XorAll,
\* for every argument, leave the node count and all links as they are.
ArenaNeverShrinks ==
    /\ [][LinksKept(nodes_, nodes_')]_vars
    /\ [](/\ \A v \in InWidth, c \in 0 .. MaxCount :
                SameShape(nodes_, Erase(This, v, c).nodes_)
          /\ \A mask \in ValueTypeRange :
                SameShape(nodes_, XorAll(This, mask).nodes_))

\* Every copy has been erased from an arena that grew to at least two
\* complete paths, and a further Insert is about to add nodes to it.
ArenaNeverShrinksWitness ==
    /\ TotalCount(This) = 0
    /\ Len(nodes_) >= 2 * kNumBits + 1
    /\ xor_mask_ # 0
    /\ \E a \in InsertArgs : Len(Insert(This, a[1], a[2]).nodes_) > Len(nodes_)


\* The links of the arena, as (parent, direction) pairs that are set.
Links ==
    { l \in NodeIndices \X {0, 1} : ChildOf(nodes_, l[1], l[2]) # kNull }

\* The nodes reached from the nodes of `seen` by following links.
RECURSIVE ReachableFrom(_)
ReachableFrom(seen) ==
    LET next == seen \cup { ChildOf(nodes_, l[1], l[2]) : l \in { m \in Links : m[1] \in seen } }
    IN IF next = seen THEN seen ELSE ReachableFrom(next)

\* C20: in every reachable state node 0 exists and is the child of no node;
\* every link points to an arena node; every other arena node is the target
\* of exactly one link (no sharing) and is reached from node 0 (no orphan
\* nodes, no cycle apart from the tree).
ArenaIsTree ==
    /\ 0 \in NodeIndices
    /\ \A l \in Links : ChildOf(nodes_, l[1], l[2]) \in NodeIndices \ {0}
    /\ \A j \in NodeIndices \ {0} :
           Cardinality({ l \in Links : ChildOf(nodes_, l[1], l[2]) = j }) = 1
    /\ ReachableFrom({0}) = NodeIndices

\* Under a nonzero mask the arena has grown, over Inserts and Erases, to the
\* complete tree over all in-width values, and holds a node emptied by Erase.
ArenaIsTreeWitness ==
    /\ HasZeroCountNode
    /\ xor_mask_ # 0
    /\ Len(nodes_) = Pow2(kNumBits + 1) - 1
    /\ Cardinality(Links) = Pow2(kNumBits + 1) - 2


\* C21: for every sequence of Insert, Erase and XorAll calls with in-width
\* values and non-negative counts, every node's subtree_count and
\* terminal_count is >= 0 in every reachable state, and an Erase asking for
\* more copies than are stored leaves every counter >= 0 as well.
CountersNonNegative ==
    /\ \A i \in NodeIndices :
           /\ nodes_[i + 1].subtree_count >= 0
           /\ nodes_[i + 1].terminal_count >= 0
    /\ \A v \in InWidth, c \in 0 .. MaxCount :
           LET after == Erase(This, v, c).nodes_
           IN \A i \in 1 .. Len(after) :
                  after[i].subtree_count >= 0 /\ after[i].terminal_count >= 0

\* Under a nonzero mask, with a node already emptied by Erase, a value is
\* stored with fewer copies than an Erase can ask for, next to another
\* stored value: the clamp decides what is subtracted along the path.
CountersNonNegativeWitness ==
    /\ xor_mask_ # 0
    /\ HasZeroCountNode
    /\ Cardinality(Present) >= 2
    /\ \E v \in Present : Count(This, v) < MaxCount


(***************************************************************************)
(* Preconditions.                                                          *)
(***************************************************************************)
OutOfWidth == ValueTypeRange \ InWidth

\* C22 as stated: every public operation that takes a value argument reaches
\* the assertion failure whenever the argument does not fit kNumBits bits.
PreconditionAlwaysAsserts ==
    \A v \in OutOfWidth :
        /\ \A c \in 0 .. MaxCount : InsertAborts(This, v, c) /\ EraseAborts(This, v, c)
        /\ CountAborts(This, v)
        /\ ContainsAborts(This, v)
        /\ CountLessAborts(This, v)
        /\ CountGreaterAborts(This, v)
        /\ LowerBoundAborts(This, v)
        /\ PrevAborts(This, v)
        /\ MaxXorAborts(This, v)
        /\ MinXorAborts(This, v)
        /\ XorAllAborts(This, v)

\* C22, amended: with an argument that does not fit kNumBits bits, Count,
\* Contains, CountLess, CountGreater, MaxXor and MinXor always reach the
\* assertion failure; Insert and Erase reach it exactly when count > 0 and
\* return without any effect when count = 0; LowerBound and Prev reach it
\* exactly when TotalCount() > 0 and return the empty result on an empty
\* trie; XorAll has no assertion and proceeds with the argument masked to
\* kNumBits bits.
PreconditionChecks ==
    \A v \in OutOfWidth :
        /\ \A c \in 0 .. MaxCount :
               /\ InsertAborts(This, v, c) <=> c > 0
               /\ EraseAborts(This, v, c) <=> c > 0
        /\ Insert(This, v, 0) = This
        /\ Erase(This, v, 0) = This
        /\ CountAborts(This, v)
        /\ ContainsAborts(This, v)
        /\ CountLessAborts(This, v)
        /\ CountGreaterAborts(This, v)
        /\ MaxXorAborts(This, v)
        /\ MinXorAborts(This, v)
        /\ LowerBoundAborts(This, v) <=> TotalCount(This) > 0
        /\ PrevAborts(This, v) <=> TotalCount(This) > 0
        /\ TotalCount(This) = 0 =>
               LowerBound(This, v) = NullOpt /\ Prev(This, v) = NullOpt
        /\ ~XorAllAborts(This, v)
        /\ XorAll(This, v) = XorAll(This, BitAnd(v, BitMask))

\* A trie that holds elements after an emptied one (a node with zero counts
\* remains) under a nonzero mask: an out-of-width argument makes LowerBound
\* reach its assert in this state, while XorAll with it changes the mask.
PreconditionChecksWitness ==
    /\ TotalCount(This) > 0
    /\ HasZeroCountNode
    /\ xor_mask_ # 0
    /\ \E v \in OutOfWidth :
           /\ LowerBoundAborts(This, v)
           /\ XorAll(This, v).xor_mask_ # xor_mask_


\* The nodes reached from the root by exactly depth links; such a node is
\* searched at level bit = kNumBits - 1 - depth.
RECURSIVE NodesAtDepth(_)
NodesAtDepth(depth) ==
    IF depth = 0 THEN {0}
    ELSE { ChildOf(nodes_, l[1], l[2]) :
               l \in { m \in Links : m[1] \in NodesAtDepth(depth - 1) } }

\* C30: in every reachable state, FindLowerBound and FindPrev called with
\* tight = false on a node with subtree_count > 0, at the level of that
\* node and for any target, return true (prefix_actual only sets the value
\* returned): an untight search never fails, so a failure comes only from
\* the tight path.
UntightSearchSucceeds ==
    \A depth \in 0 .. kNumBits : \A node_index \in NodesAtDepth(depth) :
        SubtreeCount(This, node_index) > 0 =>
            \A target \in InWidth :
                /\ FindLowerBound(This, node_index, kNumBits - 1 - depth,
                                  target, 0, FALSE).has
                /\ FindPrev(This, node_index, kNumBits - 1 - depth,
                            target, 0, FALSE).has

\* Values are flipped, LowerBound and Prev each answer with a value other
\* than their argument (found by an untight descent), and a node with
\* subtree_count > 0 has a linked child that Erase left with
\* subtree_count 0.
UntightSearchWitness ==
    /\ xor_mask_ # 0
    /\ \E v \in InWidth : LowerBound(This, v).has /\ LowerBound(This, v).val # v
    /\ \E v \in InWidth : Prev(This, v).has /\ Prev(This, v).val # v
    /\ \E depth \in 0 .. (kNumBits - 1) : \E node_index \in NodesAtDepth(depth) :
           /\ SubtreeCount(This, node_index) > 0
           /\ \E actual_bit \in {0, 1} :
                  LET child == ChildForActualBit(This, node_index,
                                                 kNumBits - 1 - depth, actual_bit)
                  IN  child # kNull /\ SubtreeCount(This, child) = 0

\* C31: in every reachable state, Kth never takes its failure branch: at
\* every node reached from the root with subtree_count > 0, the descent
\* started there with any remaining rank below that count ends with a
\* value; from the root that is every k with 0 <= k < TotalCount().  The
\* descent loop returns nullopt only where the remaining rank is not below
\* the count of the logical-0 child and the logical-1 child is absent or
\* has subtree_count <= 0.
KthNeverFails ==
    /\ \A depth \in 0 .. kNumBits : \A node_index \in NodesAtDepth(depth) :
           \A remaining \in 0 .. (SubtreeCount(This, node_index) - 1) :
               KthLoop(This, node_index, kNumBits - 1 - depth, 0, remaining).has
    /\ \A k \in 0 .. (TotalCount(This) - 1) : Kth(This, k).has

\* Values are flipped, three copies are stored, and at some node with
\* subtree_count > 0 the logical-0 child is a linked node that Erase left
\* with subtree_count 0, so that every rank there goes to the logical-1
\* child; at another node both children hold copies, so that some ranks
\* are lowered by the count of the logical-0 child.
KthNeverFailsWitness ==
    /\ xor_mask_ # 0
    /\ TotalCount(This) = MaxTotal
    /\ \E depth \in 0 .. (kNumBits - 1) : \E node_index \in NodesAtDepth(depth) :
           LET zero_child == ChildForActualBit(This, node_index,
                                               kNumBits - 1 - depth, 0)
           IN  /\ SubtreeCount(This, node_index) > 0
               /\ zero_child # kNull
               /\ SubtreeCount(This, zero_child) = 0
    /\ \E depth \in 0 .. (kNumBits - 1) : \E node_index \in NodesAtDepth(depth) :
           \A actual_bit \in {0, 1} :
               SubtreeCount(This, ChildForActualBit(This, node_index,
                                                    kNumBits - 1 - depth,
                                                    actual_bit)) > 0

\* C32: in every reachable state, at every node reached from the root with
\* subtree_count > 0 and above the leaves, one of the two children exists
\* with subtree_count > 0, and the descent of FindExtremeXor started there
\* ends with a value for every key, maximizing or minimizing; so MaxXor and
\* MinXor return a value exactly when TotalCount() > 0.
XorDescentNeverStuck ==
    /\ \A depth \in 0 .. (kNumBits - 1) : \A node_index \in NodesAtDepth(depth) :
           SubtreeCount(This, node_index) > 0 =>
               /\ \E stored_bit \in {0, 1} :
                      SubtreeCount(This, ChildOf(nodes_, node_index, stored_bit)) > 0
               /\ \A key \in InWidth, maximize \in {0, 1} :
                      FindExtremeXorLoop(This, node_index, kNumBits - 1 - depth,
                                         key, maximize, 0).has
    /\ \A value \in InWidth :
           /\ MaxXor(This, value).has <=> TotalCount(This) > 0
           /\ MinXor(This, value).has <=> TotalCount(This) > 0

\* Values are flipped, copies are stored, and at some node with
\* subtree_count > 0 one child is a linked node that Erase left with
\* subtree_count 0 while the root has a child that was never linked: the
\* descent has to fall back to the opposite child for some keys.
XorDescentWitness ==
    /\ xor_mask_ # 0
    /\ TotalCount(This) > 0
    /\ \E stored_bit \in {0, 1} : ChildOf(nodes_, 0, stored_bit) = kNull
    /\ \E depth \in 0 .. (kNumBits - 1) : \E node_index \in NodesAtDepth(depth) :
           /\ SubtreeCount(This, node_index) > 0
           /\ \E stored_bit \in {0, 1} :
                  LET child == ChildOf(nodes_, node_index, stored_bit)
                  IN  child # kNull /\ SubtreeCount(This, child) = 0

\* The nodes on the part of the stored path of stored_value that is linked,
\* from node_index at level bit down: the node itself, then one node for
\* each level whose link exists, up to the first absent link.
RECURSIVE LinkedPath(_, _, _, _)
LinkedPath(ns, node_index, bit, stored_value) ==
    IF bit < 0 THEN <<node_index>>
    ELSE LET child == ChildOf(ns, node_index, BitAt(stored_value, bit))
         IN  IF child = kNull THEN <<node_index>>
             ELSE <<node_index>> \o LinkedPath(ns, child, bit - 1, stored_value)

\* C33: Insert(v, c) with c > 0 appends one node for each level of the
\* stored path of v whose link is absent and none for a level already
\* linked: the arena grows by kNumBits minus the number of linked levels,
\* the linked part of the path keeps its nodes, the appended nodes are the
\* rest of the path in order, and every old link is kept.  So nothing is
\* appended when the whole path exists, never more than kNumBits nodes are,
\* and Insert(v, 0) appends none.
InsertAllocatesLazily ==
    \A a \in InsertArgs :
        LET after == Insert(This, a[1], a[2])
            stored_value == ToStored(This, a[1])
            old_path == LinkedPath(nodes_, 0, kNumBits - 1, stored_value)
            new_path == LinkedPath(after.nodes_, 0, kNumBits - 1, stored_value)
            absent == kNumBits + 1 - Len(old_path)
        IN  IF a[2] = 0 THEN Len(after.nodes_) = Len(nodes_)
            ELSE /\ Len(after.nodes_) = Len(nodes_) + absent
                 /\ absent \in 0 .. kNumBits
                 /\ Len(old_path) = kNumBits + 1 => Len(after.nodes_) = Len(nodes_)
                 /\ Len(new_path) = kNumBits + 1
                 /\ \A l \in 1 .. Len(old_path) : new_path[l] = old_path[l]
                 /\ \A l \in (Len(old_path) + 1) .. (kNumBits + 1) :
                        new_path[l] = Len(nodes_) + (l - Len(old_path)) - 1
                 /\ LinksKept(nodes_, after.nodes_)

\* Values are flipped and a copy can still be inserted; the whole path of
\* one value is linked although Erase left no copy of it, the path of
\* another value is linked for some levels only, and the path of a third
\* has no linked level.
InsertAllocatesWitness ==
    /\ xor_mask_ # 0
    /\ TotalCount(This) < MaxTotal
    /\ \E v \in InWidth :
           /\ Len(LinkedPath(nodes_, 0, kNumBits - 1, ToStored(This, v))) = kNumBits + 1
           /\ Count(This, v) = 0
    /\ \E v \in InWidth :
           Len(LinkedPath(nodes_, 0, kNumBits - 1, ToStored(This, v))) \in 2 .. kNumBits
    /\ \E v \in InWidth :
           Len(LinkedPath(nodes_, 0, kNumBits - 1, ToStored(This, v))) = 1

\* The trie built from the counts alone: a new object into which each value
\* w from v up is inserted counts[w] times by one Insert, with no Erase and
\* no XorAll.  It depends on nothing but the multiset.
RECURSIVE CanonicalFrom(_, _)
CanonicalFrom(counts, v) ==
    IF v \notin DOMAIN counts THEN BinaryTrie
    ELSE Insert(CanonicalFrom(counts, v + 1), v, counts[v])

\* C34: in every reachable state, every query (Count, Contains, TotalCount,
\* CountLess, CountGreater, Kth, LowerBound, Prev, MaxXor, MinXor) on every
\* argument answers as it does on the trie built from the counts alone; so
\* two tries reached by different sequences of Insert, Erase and XorAll
\* that agree on Count(v) for every v answer every query alike, whatever
\* their arenas, their leftover zero-count nodes and their xor_mask values.
QueriesDependOnMultiset ==
    QueryResults(This) =
        QueryResults(CanonicalFrom([v \in InWidth |-> Count(This, v)], 0))

\* Two values are stored, one of them twice, in a trie that differs from
\* the one built from its counts in all three ways: its values are flipped,
\* a node that Erase emptied is still linked, and its arena is larger.
QueriesDependWitness ==
    LET canonical == CanonicalFrom([v \in InWidth |-> Count(This, v)], 0)
    IN  /\ xor_mask_ # 0
        /\ HasZeroCountNode
        /\ Len(nodes_) > Len(canonical.nodes_)
        /\ Cardinality(Present) >= 2
        /\ \E v \in Present : Count(This, v) >= 2

\* C35: in every reachable state and for every in-width v, LowerBound(v)
\* equals Kth(CountLess(v)), both are empty exactly when CountLess(v) equals
\* TotalCount(), and LowerBound(v) is v exactly when Contains(v).
CrossQueryConsistency ==
    \A v \in InWidth :
        LET lower == LowerBound(This, v)
            less == CountLess(This, v)
        IN  /\ lower = Kth(This, less)
            /\ ~lower.has <=> less = TotalCount(This)
            /\ ~Kth(This, less).has <=> less = TotalCount(This)
            /\ (lower.has /\ lower.val = v) <=> Contains(This, v)

\* Values are flipped and a node that Erase emptied is still linked; one
\* value is stored twice and is its own lower bound, an absent value has a
\* larger stored value as lower bound with copies below it, and a value
\* above every stored one has none.
CrossQueryWitness ==
    /\ xor_mask_ # 0
    /\ HasZeroCountNode
    /\ \E v \in InWidth : Count(This, v) >= 2 /\ LowerBound(This, v) = Some(v)
    /\ \E v \in InWidth :
           /\ ~Contains(This, v)
           /\ LowerBound(This, v).has
           /\ CountLess(This, v) > 0
    /\ \E v \in InWidth : TotalCount(This) > 0 /\ ~LowerBound(This, v).has

\* C37: in every reachable state xor_mask_ has no bit set at or above
\* position kNumBits, and XorAll with any mask, one with such bits set
\* included, leaves the object XorAll(mask & BitMask) leaves, whose
\* xor_mask_ again has no such bit.
XorMaskWithinWidth ==
    /\ FitsWidth(xor_mask_)
    /\ \A b \in kNumBits .. (Digits - 1) : BitAt(xor_mask_, b) = 0
    /\ \A mask \in ValueTypeRange :
           /\ XorAll(This, mask) = XorAll(This, BitAnd(mask, BitMask))
           /\ FitsWidth(XorAll(This, mask).xor_mask_)

\* Every bit of the width is set in xor_mask_ after earlier calls, copies
\* are stored, and a mask with a bit above the width changes xor_mask_.
XorMaskWithinWidthWitness ==
    /\ xor_mask_ = BitMask
    /\ TotalCount(This) > 0
    /\ \E mask \in OutOfWidth : XorAll(This, mask).xor_mask_ # xor_mask_

\* C38: in every reachable state every arena node is reached from the root
\* by at most kNumBits links; terminal_count is nonzero only at depth
\* kNumBits; a node at depth kNumBits has no child; a node other than the
\* root at a depth below kNumBits has a child.
BinaryTrieShape ==
    /\ NodeIndices = UNION { NodesAtDepth(depth) : depth \in 0 .. kNumBits }
    /\ NodesAtDepth(kNumBits + 1) = {}
    /\ \A depth \in 0 .. (kNumBits - 1) : \A i \in NodesAtDepth(depth) :
           nodes_[i + 1].terminal_count = 0
    /\ \A i \in NodesAtDepth(kNumBits) :
           ChildOf(nodes_, i, 0) = kNull /\ ChildOf(nodes_, i, 1) = kNull
    /\ \A depth \in 1 .. (kNumBits - 1) : \A i \in NodesAtDepth(depth) :
           ChildOf(nodes_, i, 0) # kNull \/ ChildOf(nodes_, i, 1) # kNull

\* Copies are stored, one node below the root has two children and another
\* has one, and Erase has left a node at depth kNumBits with
\* terminal_count 0 and an inner node with subtree_count 0.
BinaryTrieShapeWitness ==
    /\ TotalCount(This) > 0
    /\ \E depth \in 1 .. (kNumBits - 1) : \E i \in NodesAtDepth(depth) :
           ChildOf(nodes_, i, 0) # kNull /\ ChildOf(nodes_, i, 1) # kNull
    /\ \E depth \in 1 .. (kNumBits - 1) : \E i \in NodesAtDepth(depth) :
           ChildOf(nodes_, i, 0) = kNull \/ ChildOf(nodes_, i, 1) = kNull
    /\ \E i \in NodesAtDepth(kNumBits) : nodes_[i + 1].terminal_count = 0
    /\ \E depth \in 1 .. (kNumBits - 1) : \E i \in NodesAtDepth(depth) :
           nodes_[i + 1].subtree_count = 0

(***************************************************************************)
(* Second part: hotaosa::Trie<kNumChar, kBase, CountType>                  *)
(* (src/hotaosa/ds/trie.h).                                                *)
(*                                                                         *)
(* The trie is an arena (nodes_) of nodes addressed by index and a free    *)
(* list (free_list_) of indices that NewNode hands out again.  A character *)
(* ch is modelled by its index ch - kBase, a word by the sequence of the   *)
(* indices of its characters.  Every member function is an operator on    *)
(* the object `t`, a record [nodes_, free_list_].                          *)
(***************************************************************************)
\* Template parameter kNumChar: the object modelled is a Trie<2, kBase>.
Trie_kNumChar == 2
\* Longest word passed to an operation.
Trie_MaxWordLen == 2
\* Largest count argument passed to Insert / Remove.
Trie_MaxCount == 2
\* Cap on TotalCount(): Insert is not called beyond it.
Trie_MaxTotal == 3
\* Cap on the size of the arena: Insert is not called when it would grow
\* nodes_ beyond it.
Trie_MaxNodes == 3

Trie_kNull == -1

Trie_IsValidIndex(idx) == 0 <= idx /\ idx < Trie_kNumChar

\* Node(): Reset() fills the children with kNull and zeroes the counters.
Trie_Node ==
    [children |-> [i \in 1 .. Trie_kNumChar |-> Trie_kNull],
     prefix_count |-> 0, end_count |-> 0]

\* Trie() : nodes_(1) {}
Trie_Trie == [nodes_ |-> <<Trie_Node>>, free_list_ |-> <<>>]

\* nodes_[node_index].children[idx]
Trie_ChildOf(ns, node_index, idx) == ns[node_index + 1].children[idx + 1]

\* All but the last element: pop_back().
Trie_PopBack(seq) == SubSeq(seq, 1, Len(seq) - 1)

\* Variant of NewNode that hands out the free-list index without Reset().
Trie_NewNodeNoReset(t) ==
    IF t.free_list_ # <<>>
    THEN [t |-> [t EXCEPT !.free_list_ = Trie_PopBack(@)],
          idx |-> t.free_list_[Len(t.free_list_)]]
    ELSE [t |-> [t EXCEPT !.nodes_ = Append(@, Trie_Node)], idx |-> Len(t.nodes_)]

\* NewNode(): the object after the call and the index returned.
Trie_NewNode(t) ==
    IF t.free_list_ # <<>>
    THEN LET idx == t.free_list_[Len(t.free_list_)]
         IN [t |-> [nodes_ |-> [t.nodes_ EXCEPT ![idx + 1] = Trie_Node],
                    free_list_ |-> Trie_PopBack(t.free_list_)],
             idx |-> idx]
    ELSE [t |-> [t EXCEPT !.nodes_ = Append(@, Trie_Node)], idx |-> Len(t.nodes_)]

\* The for loop of Insert from character i (1-based) on, then the final
\* end_count update.
RECURSIVE Trie_InsertLoop(_, _, _, _, _)
Trie_InsertLoop(t, node_index, word, i, count) ==
    IF i > Len(word)
    THEN [t EXCEPT !.nodes_[node_index + 1].end_count = @ + count]
    ELSE LET idx == word[i]
             existing == Trie_ChildOf(t.nodes_, node_index, idx)
             made == Trie_NewNode(t)
             child_index == IF existing = Trie_kNull THEN made.idx ELSE existing
             linked == IF existing = Trie_kNull
                       THEN [made.t EXCEPT
                               !.nodes_[node_index + 1].children[idx + 1] = child_index]
                       ELSE t
             counted == [linked EXCEPT !.nodes_[child_index + 1].prefix_count = @ + count]
         IN Trie_InsertLoop(counted, child_index, word, i + 1, count)

\* The object after Insert(word, count).
Trie_Insert(t, word, count) ==
    IF count <= 0 THEN t
    ELSE Trie_InsertLoop([t EXCEPT !.nodes_[1].prefix_count = @ + count],
                         0, word, 1, count)

\* Insert reaches a failing assert: count < 0, or count > 0 and a character
\* outside the alphabet.
Trie_InsertAborts(t, word, count) ==
    IF count < 0 THEN TRUE
    ELSE IF count = 0 THEN FALSE
    ELSE \E i \in 1 .. Len(word) : ~Trie_IsValidIndex(word[i])

\* The loop of FindNode from character i on; `path` is the path recorded so
\* far.  The result is the node index (kNull when the walk fails) and the
\* path.
RECURSIVE Trie_FindNodeLoop(_, _, _, _, _)
Trie_FindNodeLoop(ns, node_index, word, i, path) ==
    IF i > Len(word) THEN [node_index |-> node_index, path |-> path]
    ELSE LET idx == word[i]
         IN IF ~Trie_IsValidIndex(idx) THEN [node_index |-> Trie_kNull, path |-> path]
            ELSE LET child_index == Trie_ChildOf(ns, node_index, idx)
                 IN IF child_index = Trie_kNull
                    THEN [node_index |-> Trie_kNull, path |-> path]
                    ELSE Trie_FindNodeLoop(ns, child_index, word, i + 1,
                                           Append(path, child_index))

Trie_FindNode(t, word) == Trie_FindNodeLoop(t.nodes_, 0, word, 1, <<0>>)

\* The for loop of SubtractAlongPath from element i of the path on.
RECURSIVE Trie_SubtractLoop(_, _, _, _)
Trie_SubtractLoop(ns, path, i, dec) ==
    IF i > Len(path) THEN ns
    ELSE LET pc == ns[path[i] + 1].prefix_count
         IN Trie_SubtractLoop(
              [ns EXCEPT ![path[i] + 1].prefix_count = IF pc > dec THEN pc - dec ELSE 0],
              path, i + 1, dec)

\* Variant of SubtractAlongPath that skips the first node of the path, the
\* root.
Trie_SubtractBelowRoot(ns, path, dec) ==
    IF dec <= 0 THEN ns ELSE Trie_SubtractLoop(ns, path, 2, dec)

\* The arena after SubtractAlongPath(path, dec).
Trie_SubtractAlongPath(ns, path, dec) ==
    IF dec <= 0 THEN ns ELSE Trie_SubtractLoop(ns, path, 1, dec)

\* Variant of Remove without the clamp: removable = count.
Trie_RemoveUnclamped(t, word, count) ==
    IF count <= 0 THEN t
    ELSE LET found == Trie_FindNode(t, word)
             node_index == found.node_index
         IN IF node_index = Trie_kNull THEN t
            ELSE LET removable == count
                 IN IF removable <= 0 THEN t
                    ELSE [t EXCEPT !.nodes_ = Trie_SubtractAlongPath(
                            [t.nodes_ EXCEPT ![node_index + 1].end_count = @ - removable],
                            found.path, removable)]

\* The object after Remove(word, count).
Trie_Remove(t, word, count) ==
    IF count <= 0 THEN t
    ELSE LET found == Trie_FindNode(t, word)
             node_index == found.node_index
         IN IF node_index = Trie_kNull THEN t
            ELSE LET removable == Min(count, t.nodes_[node_index + 1].end_count)
                 IN IF removable <= 0 THEN t
                    ELSE [t EXCEPT !.nodes_ = Trie_SubtractAlongPath(
                            [t.nodes_ EXCEPT ![node_index + 1].end_count = @ - removable],
                            found.path, removable)]

Trie_RemoveAborts(t, word, count) == count < 0

\* The children of a node that are not kNull, in index order.
Trie_LinkedChildren(node) ==
    SelectSeq([i \in 1 .. Trie_kNumChar |-> node.children[i]],
              LAMBDA child : child # Trie_kNull)

\* The while loop of ClearSubtree: pop an index, push its children and clear
\* their links, zero the counters, and put the index on the free list
\* unless it is the root.
RECURSIVE Trie_ClearSubtreeLoop(_, _)
Trie_ClearSubtreeLoop(t, stack) ==
    IF stack = <<>> THEN t
    ELSE LET idx == stack[Len(stack)]
             pushed == Trie_PopBack(stack) \o Trie_LinkedChildren(t.nodes_[idx + 1])
         IN Trie_ClearSubtreeLoop(
              [nodes_ |-> [t.nodes_ EXCEPT ![idx + 1] = Trie_Node],
               free_list_ |-> IF idx # 0 THEN Append(t.free_list_, idx)
                                         ELSE t.free_list_],
              pushed)

Trie_ClearSubtree(t, node_index) == Trie_ClearSubtreeLoop(t, <<node_index>>)

\* Variant of RemoveWithPrefix that subtracts along the whole path, the
\* node of the prefix included, and leaves the subtree in place.
Trie_RemoveWithPrefixKeepSubtree(t, prefix) ==
    LET found == Trie_FindNode(t, prefix)
        node_index == found.node_index
    IN IF node_index = Trie_kNull THEN t
       ELSE LET total == t.nodes_[node_index + 1].prefix_count
            IN IF total <= 0 THEN t
               ELSE [t EXCEPT !.nodes_ =
                       Trie_SubtractAlongPath(t.nodes_, found.path, total)]

\* Variant of RemoveWithPrefix without
\* `nodes_[parent_index].children[idx] = kNull`.
Trie_RemoveWithPrefixNoUnlink(t, prefix) ==
    LET found == Trie_FindNode(t, prefix)
        node_index == found.node_index
    IN IF node_index = Trie_kNull THEN t
       ELSE LET total == t.nodes_[node_index + 1].prefix_count
            IN IF total <= 0 THEN t
               ELSE IF Len(found.path) = 1 THEN Trie_ClearSubtree(t, node_index)
               ELSE LET path == Trie_PopBack(found.path)
                        subtracted == Trie_SubtractAlongPath(t.nodes_, path, total)
                    IN Trie_ClearSubtree([t EXCEPT !.nodes_ = subtracted], node_index)

\* The object after RemoveWithPrefix(prefix).
Trie_RemoveWithPrefix(t, prefix) ==
    LET found == Trie_FindNode(t, prefix)
        node_index == found.node_index
    IN IF node_index = Trie_kNull THEN t
       ELSE LET total == t.nodes_[node_index + 1].prefix_count
            IN IF total <= 0 THEN t
               ELSE IF Len(found.path) = 1 THEN Trie_ClearSubtree(t, node_index)
               ELSE LET path == Trie_PopBack(found.path)
                        subtracted == Trie_SubtractAlongPath(t.nodes_, path, total)
                        parent_index == path[Len(path)]
                        idx == prefix[Len(prefix)]
                        unlinked == [subtracted EXCEPT
                                       ![parent_index + 1].children[idx + 1] = Trie_kNull]
                    IN Trie_ClearSubtree([t EXCEPT !.nodes_ = unlinked], node_index)

\* One visit of RemovePrefixesOf: a positive end_count is zeroed and
\* subtracted along the path walked so far.
Trie_DropEnd(ns, node_index, path) ==
    IF ns[node_index + 1].end_count > 0
    THEN Trie_SubtractAlongPath([ns EXCEPT ![node_index + 1].end_count = 0],
                                path, ns[node_index + 1].end_count)
    ELSE ns

\* Variant of the loop of RemovePrefixesOf that stops one character early.
RECURSIVE Trie_RemovePrefixesLoopShort(_, _, _, _, _)
Trie_RemovePrefixesLoopShort(ns, node_index, word, i, path) ==
    IF i >= Len(word) THEN ns
    ELSE LET idx == word[i]
         IN IF ~Trie_IsValidIndex(idx) THEN ns
            ELSE LET child_index == Trie_ChildOf(ns, node_index, idx)
                     longer == Append(path, child_index)
                 IN IF child_index = Trie_kNull THEN ns
                    ELSE Trie_RemovePrefixesLoopShort(
                           Trie_DropEnd(ns, child_index, longer),
                           child_index, word, i + 1, longer)

\* The for loop of RemovePrefixesOf from character i on.
RECURSIVE Trie_RemovePrefixesLoop(_, _, _, _, _)
Trie_RemovePrefixesLoop(ns, node_index, word, i, path) ==
    IF i > Len(word) THEN ns
    ELSE LET idx == word[i]
         IN IF ~Trie_IsValidIndex(idx) THEN ns
            ELSE LET child_index == Trie_ChildOf(ns, node_index, idx)
                     longer == Append(path, child_index)
                 IN IF child_index = Trie_kNull THEN ns
                    ELSE Trie_RemovePrefixesLoop(
                           Trie_DropEnd(ns, child_index, longer),
                           child_index, word, i + 1, longer)

\* The object after RemovePrefixesOf(word).
Trie_RemovePrefixesOf(t, word) ==
    [t EXCEPT !.nodes_ =
        Trie_RemovePrefixesLoop(Trie_DropEnd(t.nodes_, 0, <<0>>), 0, word, 1, <<0>>)]

Trie_TotalCount(t) == t.nodes_[1].prefix_count

Trie_Count(t, word) ==
    LET node_index == Trie_FindNode(t, word).node_index
    IN IF node_index = Trie_kNull THEN 0 ELSE t.nodes_[node_index + 1].end_count

Trie_CountWithPrefix(t, prefix) ==
    LET node_index == Trie_FindNode(t, prefix).node_index
    IN IF node_index = Trie_kNull THEN 0 ELSE t.nodes_[node_index + 1].prefix_count

\* The loop of CountPrefixesOf from character i on.
RECURSIVE Trie_CountPrefixesLoop(_, _, _, _, _)
Trie_CountPrefixesLoop(ns, node_index, word, i, total) ==
    IF i > Len(word) THEN total
    ELSE LET idx == word[i]
         IN IF ~Trie_IsValidIndex(idx) THEN total
            ELSE LET child_index == Trie_ChildOf(ns, node_index, idx)
                 IN IF child_index = Trie_kNull THEN total
                    ELSE Trie_CountPrefixesLoop(ns, child_index, word, i + 1,
                                                total + ns[child_index + 1].end_count)

Trie_CountPrefixesOf(t, word) ==
    Trie_CountPrefixesLoop(t.nodes_, 0, word, 1, t.nodes_[1].end_count)

Trie_Contains(t, word) == Trie_Count(t, word) > 0

Trie_ContainsWithPrefix(t, prefix) == Trie_CountWithPrefix(t, prefix) > 0

Trie_ContainsPrefixOf(t, word) == Trie_CountPrefixesOf(t, word) > 0

\* The loop of LcpWith; i is the 0-based position of the C++ loop.
RECURSIVE Trie_LcpLoop(_, _, _, _)
Trie_LcpLoop(ns, node_index, word, i) ==
    IF i >= Len(word) THEN Len(word)
    ELSE LET idx == word[i + 1]
         IN IF ~Trie_IsValidIndex(idx) THEN i
            ELSE LET child_index == Trie_ChildOf(ns, node_index, idx)
                 IN IF child_index = Trie_kNull THEN i
                    ELSE Trie_LcpLoop(ns, child_index, word, i + 1)

Trie_LcpWith(t, word) == Trie_LcpLoop(t.nodes_, 0, word, 0)


(***************************************************************************)
(* The state machine of the Trie: one action per public operation, applied *)
(* to the object held in trie_nodes_ and free_list_.  Words are drawn over *)
(* the alphabet and one character outside it; a call that reaches a        *)
(* failing assert ends the program and has no successor state.             *)
(***************************************************************************)
\* The sequences over S of length at most n.
SeqsUpTo(S, n) == UNION { [1 .. k -> S] : k \in 0 .. n }

\* The words over the alphabet.
Trie_Words == SeqsUpTo(0 .. (Trie_kNumChar - 1), Trie_MaxWordLen)

\* The words over the alphabet, and those words followed by one character
\* outside it (of index kNumChar): every operation stops at the first such
\* character.
Trie_AnyWords ==
    Trie_Words \cup
    { Append(w, Trie_kNumChar) : w \in SeqsUpTo(0 .. (Trie_kNumChar - 1), Trie_MaxWordLen - 1) }

NoBinaryTrie == nodes_ = <<>> /\ xor_mask_ = 0

TrieThis == [nodes_ |-> trie_nodes_, free_list_ |-> free_list_]

TrieBecomes(t) ==
    /\ trie_nodes_' = t.nodes_
    /\ free_list_' = t.free_list_
    /\ UNCHANGED <<vars, lis_vars>>

TrieInit ==
    /\ trie_nodes_ = Trie_Trie.nodes_
    /\ free_list_ = Trie_Trie.free_list_
    /\ NoBinaryTrie
    /\ NoLis

Trie_CallInsert(word, count) ==
    /\ ~Trie_InsertAborts(TrieThis, word, count)
    /\ Trie_TotalCount(TrieThis) + count <= Trie_MaxTotal
    /\ Len(Trie_Insert(TrieThis, word, count).nodes_) <= Trie_MaxNodes
    /\ TrieBecomes(Trie_Insert(TrieThis, word, count))

Trie_CallRemove(word, count) ==
    /\ ~Trie_RemoveAborts(TrieThis, word, count)
    /\ TrieBecomes(Trie_Remove(TrieThis, word, count))

Trie_CallRemoveWithPrefix(prefix) ==
    TrieBecomes(Trie_RemoveWithPrefix(TrieThis, prefix))

Trie_CallRemovePrefixesOf(word) ==
    TrieBecomes(Trie_RemovePrefixesOf(TrieThis, word))

Trie_CallTotalCount == Trie_TotalCount(TrieThis) \in Int /\ UNCHANGED all_vars

Trie_CallCount(word) == Trie_Count(TrieThis, word) \in Int /\ UNCHANGED all_vars

Trie_CallCountWithPrefix(prefix) ==
    Trie_CountWithPrefix(TrieThis, prefix) \in Int /\ UNCHANGED all_vars

Trie_CallCountPrefixesOf(word) ==
    Trie_CountPrefixesOf(TrieThis, word) \in Int /\ UNCHANGED all_vars

Trie_CallContains(word) ==
    Trie_Contains(TrieThis, word) \in BOOLEAN /\ UNCHANGED all_vars

Trie_CallContainsWithPrefix(prefix) ==
    Trie_ContainsWithPrefix(TrieThis, prefix) \in BOOLEAN /\ UNCHANGED all_vars

Trie_CallContainsPrefixOf(word) ==
    Trie_ContainsPrefixOf(TrieThis, word) \in BOOLEAN /\ UNCHANGED all_vars

Trie_CallLcpWith(word) == Trie_LcpWith(TrieThis, word) \in Int /\ UNCHANGED all_vars

TrieNext ==
    \/ \E word \in Trie_AnyWords, count \in 0 .. Trie_MaxCount : Trie_CallInsert(word, count)
    \/ \E word \in Trie_AnyWords, count \in 0 .. Trie_MaxCount : Trie_CallRemove(word, count)
    \/ \E prefix \in Trie_AnyWords : Trie_CallRemoveWithPrefix(prefix)
    \/ \E word \in Trie_AnyWords : Trie_CallRemovePrefixesOf(word)
    \/ Trie_CallTotalCount
    \/ \E word \in Trie_AnyWords : Trie_CallCount(word)
    \/ \E prefix \in Trie_AnyWords : Trie_CallCountWithPrefix(prefix)
    \/ \E word \in Trie_AnyWords : Trie_CallCountPrefixesOf(word)
    \/ \E word \in Trie_AnyWords : Trie_CallContains(word)
    \/ \E prefix \in Trie_AnyWords : Trie_CallContainsWithPrefix(prefix)
    \/ \E word \in Trie_AnyWords : Trie_CallContainsPrefixOf(word)
    \/ \E word \in Trie_AnyWords : Trie_CallLcpWith(word)

TrieSpec == TrieInit /\ [][TrieNext]_all_vars


(***************************************************************************)
(* The multiset of words of a Trie object, read through Count.             *)
(***************************************************************************)
\* p is a prefix of w.
IsPrefixOf(p, w) == Len(p) <= Len(w) /\ SubSeq(w, 1, Len(p)) = p

\* The sum of Count(w) over the words w of the set S.
RECURSIVE Trie_SumCount(_, _)
Trie_SumCount(t, S) ==
    IF S = {} THEN 0
    ELSE LET w == CHOOSE x \in S : TRUE
         IN Trie_Count(t, w) + Trie_SumCount(t, S \ {w})

\* The words of the alphabet that have p as a prefix / that are prefixes of w.
Trie_Extensions(p) == { w \in Trie_Words : IsPrefixOf(p, w) }

Trie_PrefixesOf(w) == { p \in Trie_Words : IsPrefixOf(p, w) }

Trie_Stored == { w \in Trie_Words : Trie_Count(TrieThis, w) > 0 }

Trie_NodeIndices == 0 .. (Len(trie_nodes_) - 1)

\* The node indices reached from the root by following links.
RECURSIVE Trie_ReachableFrom(_)
Trie_ReachableFrom(seen) ==
    LET next == seen \cup
                ({ Trie_ChildOf(trie_nodes_, i, idx) :
                     i \in seen, idx \in 0 .. (Trie_kNumChar - 1) } \ {Trie_kNull})
    IN IF next = seen THEN seen ELSE Trie_ReachableFrom(next)

\* A node left in the tree with no word below it: Remove and
\* RemovePrefixesOf do not unlink.
Trie_HasEmptyLinkedNode ==
    \E i \in Trie_ReachableFrom({0}) : i # 0 /\ trie_nodes_[i + 1].prefix_count = 0

\* The calls of Insert the action can make in the current state.
Trie_InsertArgs ==
    { a \in Trie_Words \X (0 .. Trie_MaxCount) :
        /\ Trie_TotalCount(TrieThis) + a[2] <= Trie_MaxTotal
        /\ Len(Trie_Insert(TrieThis, a[1], a[2]).nodes_) <= Trie_MaxNodes }

\* C23: after any sequence of Insert, Remove, RemoveWithPrefix and
\* RemovePrefixesOf, CountWithPrefix(p) equals the sum of Count(w) over all
\* words w that have p as a prefix, for every p, and TotalCount() equals
\* CountWithPrefix of the empty string.
TriePrefixCounts ==
    /\ \A p \in Trie_AnyWords :
           Trie_CountWithPrefix(TrieThis, p) = Trie_SumCount(TrieThis, Trie_Extensions(p))
    /\ Trie_TotalCount(TrieThis) = Trie_CountWithPrefix(TrieThis, <<>>)

\* The empty word, a one-letter word and nothing else are stored, some word
\* in two copies; a node emptied by Remove or RemovePrefixesOf is still
\* linked under the one-letter word.
TriePrefixCountsWitness ==
    /\ Trie_Count(TrieThis, <<>>) > 0
    /\ \E w \in Trie_Stored : Len(w) = 1
    /\ \E w \in Trie_Stored : Trie_Count(TrieThis, w) >= 2
    /\ Trie_HasEmptyLinkedNode


\* C24: RemoveWithPrefix(p) removes every string that has p as a prefix and
\* nothing else: afterwards Count(w) = 0 for every w with prefix p, Count(u)
\* is unchanged for every other word u, and TotalCount() has dropped by the
\* previous CountWithPrefix(p); for a prefix with no stored string the
\* object is left as it was, so no query result changes; for the empty
\* prefix TotalCount() = 0 and Contains(w) is false for every w afterwards.
RemoveWithPrefixEffect ==
    \A p \in Trie_AnyWords :
        LET after == Trie_RemoveWithPrefix(TrieThis, p)
            below == Trie_CountWithPrefix(TrieThis, p)
        IN /\ IF below = 0
              THEN \* nothing below p: the object is unchanged, and with it
                   \* every Count and TotalCount
                   after = TrieThis
              ELSE /\ \A w \in Trie_Words :
                          Trie_Count(after, w) =
                              IF IsPrefixOf(p, w) THEN 0 ELSE Trie_Count(TrieThis, w)
                   /\ Trie_TotalCount(after) = Trie_TotalCount(TrieThis) - below
           /\ p = <<>> =>
                  /\ Trie_TotalCount(after) = 0
                  /\ \A w \in Trie_AnyWords : ~Trie_Contains(after, w)

\* Some nonempty prefix has two stored words below it while another word
\* is stored outside it, and the trie holds as many copies as the cap
\* allows.
RemoveWithPrefixWitness ==
    /\ \E p \in Trie_Words :
           /\ p # <<>>
           /\ Cardinality(Trie_Stored \cap Trie_Extensions(p)) >= 2
           /\ Trie_Stored \ Trie_Extensions(p) # {}
    /\ Trie_TotalCount(TrieThis) = Trie_MaxTotal


\* C25: RemovePrefixesOf(word) removes every stored string that is a prefix
\* of word (the empty string and word itself included) and nothing else:
\* afterwards Count(p) = 0 for every prefix p of word, Count(u) is unchanged
\* for every other u, and TotalCount() and every CountWithPrefix value have
\* dropped by exactly the multiplicities removed beneath them.
RemovePrefixesOfEffect ==
    LET stored == Trie_Stored
    IN  \A word \in Trie_AnyWords :
            LET after == Trie_RemovePrefixesOf(TrieThis, word)
                gone == { u \in stored : IsPrefixOf(u, word) }
            IN IF gone = {}
               THEN \* no stored prefix: every conjunct below holds with
                    \* nothing removed because the object is unchanged
                    after = TrieThis
               ELSE /\ \A u \in Trie_Words :
                           Trie_Count(after, u) =
                               IF IsPrefixOf(u, word) THEN 0
                               ELSE Trie_Count(TrieThis, u)
                    /\ Trie_TotalCount(after) =
                           Trie_TotalCount(TrieThis) - Trie_SumCount(TrieThis, gone)
                    /\ \A q \in Trie_AnyWords :
                           Trie_CountWithPrefix(after, q) =
                               Trie_CountWithPrefix(TrieThis, q)
                               - Trie_SumCount(TrieThis,
                                               { u \in gone : IsPrefixOf(q, u) })

\* A stored word has another stored word as a proper prefix, and a third
\* stored word is not a prefix of it.
RemovePrefixesOfWitness ==
    \E word \in Trie_Stored :
        /\ Cardinality(Trie_Stored \cap Trie_PrefixesOf(word)) >= 2
        /\ Trie_Stored \ Trie_PrefixesOf(word) # {}


\* C26: Remove(word, count) with count > 0 lowers Count(word) by exactly
\* min(count, Count(word)), lowers CountWithPrefix(p) by the same amount for
\* every prefix p of word, and leaves Count of every other word unchanged;
\* removing a word that is not stored changes nothing.
RemoveEffect ==
    \A word \in Trie_AnyWords, count \in 1 .. Trie_MaxCount :
        LET after == Trie_Remove(TrieThis, word, count)
            stored == Trie_Count(TrieThis, word)
            removed == Min(count, stored)
        IN IF stored = 0
           THEN \* nothing to remove: every conjunct below holds with
                \* removed = 0 because the object is unchanged
                after = TrieThis
           ELSE /\ Trie_Count(after, word) = stored - removed
                /\ \A p \in Trie_AnyWords :
                       IsPrefixOf(p, word) =>
                           Trie_CountWithPrefix(after, p) =
                               Trie_CountWithPrefix(TrieThis, p) - removed
                /\ \A u \in Trie_Words :
                       u # word => Trie_Count(after, u) = Trie_Count(TrieThis, u)

\* A nonempty word is stored in fewer copies than a call can ask for, next
\* to another stored word, and a word that is not stored still has its
\* node in the tree.
RemoveEffectWitness ==
    /\ \E w \in Trie_Stored : w # <<>> /\ Trie_Count(TrieThis, w) < Trie_MaxCount
    /\ Cardinality(Trie_Stored) >= 2
    /\ \E w \in Trie_Words \ Trie_Stored :
           w # <<>> /\ Trie_FindNode(TrieThis, w).node_index # Trie_kNull


\* The length of the longest common prefix of the words a and b.
RECURSIVE CommonPrefixLen(_, _)
CommonPrefixLen(a, b) ==
    IF a = <<>> \/ b = <<>> \/ Head(a) # Head(b) THEN 0
    ELSE 1 + CommonPrefixLen(Tail(a), Tail(b))

\* C27: after any sequence of Insert, Remove, RemoveWithPrefix and
\* RemovePrefixesOf, LcpWith(word) equals the maximum, over the words w
\* currently stored (Count(w) > 0), of the length of the common prefix of w
\* and word, and 0 when nothing is stored.
LcpWithStored ==
    \A word \in Trie_AnyWords :
        Trie_LcpWith(TrieThis, word) =
            IF Trie_Stored = {} THEN 0
            ELSE SetMax({ CommonPrefixLen(w, word) : w \in Trie_Stored })


(***************************************************************************)
(* hotaosa/dp/lis.h: longest increasing subsequence by patience sorting.   *)
(* A range is a sequence of values; the positions the code counts from 0   *)
(* (pos, left, right, the indices it returns) stay 0-based here, and the   *)
(* element at position p of a sequence s is s[p + 1].                      *)
(***************************************************************************)
\* The longest range passed and the largest value in it.
Lis_MaxLen == 4
Lis_MaxValue == 2

\* enum class LisMode.
LisMode == {"kStrict", "kNonStrict"}

\* The comparators passed as comp, each a strict weak order on the values:
\* std::ranges::less, std::ranges::greater, and a comparator that orders by
\* a key (value / 2) and so has distinct values that are equivalent.
Lis_Compare == {"less", "greater", "less_half"}

Lis_comp(comp, lhs, rhs) ==
    CASE comp = "less" -> lhs < rhs
      [] comp = "greater" -> lhs > rhs
      [] comp = "less_half" -> (lhs \div 2) < (rhs \div 2)

\* LisFindInsertPos with the wrong test in kNonStrict mode: the strict one.
RECURSIVE LisFindInsertPosStrictOnly(_, _, _, _, _, _)
LisFindInsertPosStrictOnly(tails, value, comp, mode, left, right) ==
    IF left < right
    THEN LET mid == (left + right) \div 2
         IN  IF Lis_comp(comp, tails[mid + 1], value)
             THEN LisFindInsertPosStrictOnly(tails, value, comp, mode, mid + 1, right)
             ELSE LisFindInsertPosStrictOnly(tails, value, comp, mode, left, mid)
    ELSE left

\* The while loop of LisFindInsertPos, from the bounds left and right.
RECURSIVE LisFindInsertPosLoop(_, _, _, _, _, _)
LisFindInsertPosLoop(tails, value, comp, mode, left, right) ==
    IF left < right
    THEN LET mid == (left + right) \div 2
         IN  IF mode = "kStrict"
             THEN IF Lis_comp(comp, tails[mid + 1], value)
                  THEN LisFindInsertPosLoop(tails, value, comp, mode, mid + 1, right)
                  ELSE LisFindInsertPosLoop(tails, value, comp, mode, left, mid)
             ELSE IF ~Lis_comp(comp, value, tails[mid + 1])
                  THEN LisFindInsertPosLoop(tails, value, comp, mode, mid + 1, right)
                  ELSE LisFindInsertPosLoop(tails, value, comp, mode, left, mid)
    ELSE left

LisFindInsertPos(tails, value, comp, mode) ==
    LisFindInsertPosLoop(tails, value, comp, mode, 0, Len(tails))

\* "if (pos == size) v.push_back(x); else v[pos] = x;", the update of tails
\* and of tail_indices.
Lis_Place(v, pos, x) ==
    IF pos = Len(v) THEN Append(v, x) ELSE [v EXCEPT ![pos + 1] = x]

\* The range-for loop of LisLength, from the element at position i.
RECURSIVE LisLengthLoop(_, _, _, _, _)
LisLengthLoop(range, comp, mode, i, tails) ==
    IF i < Len(range)
    THEN LET element == range[i + 1]
             pos == LisFindInsertPos(tails, element, comp, mode)
         IN  LisLengthLoop(range, comp, mode, i + 1, Lis_Place(tails, pos, element))
    ELSE tails

LisLength(range, comp, mode) == Len(LisLengthLoop(range, comp, mode, 0, <<>>))

\* The first loop of LisComputeIndices, from the element at position i: the
\* tails, the position in range of each tail, and the parent links.
RECURSIVE LisComputeLoop(_, _, _, _, _, _, _)
LisComputeLoop(range, comp, mode, i, tails, tail_indices, parent) ==
    IF i < Len(range)
    THEN LET element == range[i + 1]
             pos == LisFindInsertPos(tails, element, comp, mode)
             placed == Lis_Place(tail_indices, pos, i)
         IN  LisComputeLoop(range, comp, mode, i + 1,
                            Lis_Place(tails, pos, element), placed,
                            IF pos > 0
                            THEN [parent EXCEPT ![i + 1] = placed[pos]]
                            ELSE parent)
    ELSE [tail_indices |-> tail_indices, parent |-> parent]

\* The second loop of LisComputeIndices, which walks the parent links back
\* from the last tail, from the position pos of indices.
RECURSIVE LisRestoreLoop(_, _, _, _)
LisRestoreLoop(parent, indices, pos, index) ==
    IF pos >= 0
    THEN LisRestoreLoop(parent, [indices EXCEPT ![pos + 1] = index],
                        pos - 1, parent[index + 1])
    ELSE indices

\* LisComputeIndices returning the positions of the tails instead of
\* following the parent links.
LisComputeIndicesTails(range, comp, mode) ==
    LET n == Len(range)
    IN  IF n = 0 THEN <<>>
        ELSE LisComputeLoop(range, comp, mode, 0, <<>>, <<>>,
                            [k \in 1 .. n |-> -1]).tail_indices

LisComputeIndices(range, comp, mode) ==
    LET n == Len(range)
    IN  IF n = 0 THEN <<>>
        ELSE LET done == LisComputeLoop(range, comp, mode, 0, <<>>, <<>>,
                                        [k \in 1 .. n |-> -1])
                 size == Len(done.tail_indices)
                 index == IF size = 0 THEN -1 ELSE done.tail_indices[size]
             IN  LisRestoreLoop(done.parent, [k \in 1 .. size |-> 0],
                                size - 1, index)

LisIndices(range, comp, mode) == LisComputeIndices(range, comp, mode)

Lis(range, comp, mode) ==
    LET indices == LisComputeIndices(range, comp, mode)
    IN  [i \in 1 .. Len(indices) |-> range[indices[i] + 1]]

(***************************************************************************)
(* The program of LisSpec: it holds one range, one comparator and one      *)
(* mode, and calls LisLength, LisIndices and Lis on them; lis_out is what  *)
(* the last call returned.                                                 *)
(***************************************************************************)
Lis_Ranges == SeqsUpTo(0 .. Lis_MaxValue, Lis_MaxLen)

LisInit ==
    /\ lis_range \in Lis_Ranges
    /\ lis_comp \in Lis_Compare
    /\ lis_mode \in LisMode
    /\ lis_out = [op |-> "none"]
    /\ NoBinaryTrie
    /\ NoTrie

LisReturns(op, val) ==
    /\ lis_out' = [op |-> op, val |-> val]
    /\ UNCHANGED <<lis_range, lis_comp, lis_mode, vars, trie_vars>>

CallLisLength == LisReturns("LisLength", LisLength(lis_range, lis_comp, lis_mode))

CallLisIndices == LisReturns("LisIndices", LisIndices(lis_range, lis_comp, lis_mode))

CallLis == LisReturns("Lis", Lis(lis_range, lis_comp, lis_mode))

LisNext ==
    \/ CallLisLength
    \/ CallLisIndices
    \/ CallLis

LisSpec == LisInit /\ [][LisNext]_all_vars

(***************************************************************************)
(* Properties of the LIS functions.                                        *)
(***************************************************************************)
\* b may follow a in a subsequence that is increasing under comp in mode:
\* a before b under comp in kStrict mode, b not before a in kNonStrict mode.
MayFollow(comp, mode, a, b) ==
    IF mode = "kStrict" THEN Lis_comp(comp, a, b) ELSE ~Lis_comp(comp, b, a)

\* The elements of range at the set S of 0-based positions, in the order of
\* range, are increasing under comp in mode.
IncreasingAt(range, comp, mode, S) ==
    \A i, j \in S : i < j => MayFollow(comp, mode, range[i + 1], range[j + 1])

\* The length of a longest increasing subsequence of range, found by trying
\* every set of positions.
LongestIncreasing(range, comp, mode) ==
    SetMax({ Cardinality(S) : S \in { T \in SUBSET (0 .. (Len(range) - 1)) :
                                          IncreasingAt(range, comp, mode, T) } })

\* C28: for every range, comparator and mode, LisLength returns the length
\* of a longest subsequence of range that is strictly increasing under comp
\* in kStrict mode and non-decreasing under comp in kNonStrict mode; that is
\* 0 for the empty range.
LisLengthIsLongest ==
    lis_out.op = "LisLength" =>
        /\ lis_out.val = LongestIncreasing(lis_range, lis_comp, lis_mode)
        /\ lis_range = <<>> => lis_out.val = 0

\* LisLength has returned for a range with repeated and with descending
\* elements whose longest subsequence is neither one element nor the whole
\* range, under the comparator with equivalent values and in kNonStrict mode.
LisLengthWitness ==
    /\ lis_out.op = "LisLength"
    /\ lis_comp = "less_half"
    /\ lis_mode = "kNonStrict"
    /\ Len(lis_range) = Lis_MaxLen
    /\ lis_out.val > 1
    /\ lis_out.val < Len(lis_range)
    /\ \E i, j \in 1 .. Len(lis_range) : i < j /\ lis_range[i] > lis_range[j]
    /\ \E i, j \in 1 .. Len(lis_range) : i < j /\ lis_range[i] = lis_range[j]


\* C29: LisIndices returns positions of range in strictly increasing order,
\* as many as LisLength returns, whose elements are strictly increasing
\* under comp in kStrict mode and non-decreasing in kNonStrict mode; Lis
\* returns the elements at exactly those positions.
LisIndicesIsLongest ==
    /\ lis_out.op = "LisIndices" =>
           LET indices == lis_out.val
           IN  /\ \A i \in 1 .. Len(indices) : indices[i] \in 0 .. (Len(lis_range) - 1)
               /\ \A i, j \in 1 .. Len(indices) : i < j => indices[i] < indices[j]
               /\ Len(indices) = LisLength(lis_range, lis_comp, lis_mode)
               /\ \A i, j \in 1 .. Len(indices) :
                      i < j => MayFollow(lis_comp, lis_mode,
                                         lis_range[indices[i] + 1],
                                         lis_range[indices[j] + 1])
    /\ lis_out.op = "Lis" =>
           LET indices == LisIndices(lis_range, lis_comp, lis_mode)
           IN  /\ Len(lis_out.val) = Len(indices)
               /\ \A i \in 1 .. Len(indices) :
                      lis_out.val[i] = lis_range[indices[i] + 1]

\* LisIndices has returned at least two positions, fewer than the range
\* has, and they are not the positions of the final tails: a later element
\* replaced a tail that the returned subsequence does not go through.
LisIndicesWitness ==
    /\ lis_out.op = "LisIndices"
    /\ Len(lis_out.val) > 1
    /\ Len(lis_out.val) < Len(lis_range)
    /\ lis_out.val #
           LisComputeLoop(lis_range, lis_comp, lis_mode, 0, <<>>, <<>>,
                          [k \in 1 .. Len(lis_range) |-> -1]).tail_indices

\* The indices on the free list.
Trie_FreeIndices == { free_list_[i] : i \in 1 .. Len(free_list_) }

\* C36: after any sequence of Insert, Remove, RemoveWithPrefix and
\* RemovePrefixesOf, the free list holds indices of arena nodes other than
\* the root, none twice and none reached from the root, and every node on
\* it has all links null and both counters zero; so the index NewNode
\* returns is never that of a node reached from the root.
FreeListSafe ==
    LET live == Trie_ReachableFrom({0})
    IN  /\ Trie_FreeIndices \subseteq Trie_NodeIndices \ {0}
        /\ Cardinality(Trie_FreeIndices) = Len(free_list_)
        /\ Trie_FreeIndices \cap live = {}
        /\ \A i \in Trie_FreeIndices : trie_nodes_[i + 1] = Trie_Node
        /\ Trie_NewNode(TrieThis).idx \notin live

\* A node is on the free list while a word is stored, another node that
\* Remove or RemovePrefixesOf emptied is still linked, and an Insert the
\* state allows takes a node from the free list.
FreeListSafeWitness ==
    /\ free_list_ # <<>>
    /\ Trie_TotalCount(TrieThis) > 0
    /\ Trie_HasEmptyLinkedNode
    /\ \E a \in Trie_InsertArgs :
           Len(Trie_Insert(TrieThis, a[1], a[2]).free_list_) < Len(free_list_)

====
